---------------------------- MODULE Spec2Model ----------------------------
(***************************************************************************)
(* Life Navigator: the aggregation and scoring engine                      *)
(* (src/src/analysis/PersonalHealthAnalyzer.js).                           *)
(*                                                                         *)
(* Numbers.  The endpoints surface ratios with at most three decimals and  *)
(* hours with one decimal, so the model carries                            *)
(*   ratios (stressLevel, meetingDensity, sleepQuality) in thousandths,    *)
(*   hours  (focusTimeHours, sleepDuration)             in tenths,         *)
(*   counts (urgentCount, declinableCount, dailySteps)  as they are.       *)
(* A threshold 0.3 of the source is therefore 300 here, 6 hours is 60.     *)
(*                                                                         *)
(* Objects.  A JavaScript object is a function from its property names to  *)
(* their values; a property the object does not have is not in the         *)
(* DOMAIN.  Reading it yields undefined, for which the source's            *)
(* `x || 0` gives 0 and every comparison (undefined < 6) is false.         *)
(***************************************************************************)
EXTENDS Integers, Sequences, FiniteSets, Bags, TLC

VARIABLES
    userData,      \* the argument the frontend passes to the analyzer
    initialized,   \* PersonalHealthAnalyzer.initialized
    outcome,       \* "none" before the call, then "returned" or "threw"
    insights,      \* the local insights object as the last call left it
    result,        \* the object analyzeProductivityHealth returned
    now,           \* the clock read by new Date()
    upstream,      \* what the upstream API (Gmail, Calendar, weather) answers
    cache,         \* the proxy's Map of cached responses, by cache key
    userTokens,    \* the proxy's Map of OAuth tokens, by user id
    sessions,      \* the users whose browser holds a session of the proxy
    pending,       \* the bag of the handlers that await an upstream answer
    reply,         \* the last reply the proxy sent
    oauth2Client,  \* the credentials of the proxy's one OAuth client
    currentUser,   \* LifeNavigator.currentUser
    loadBtn,       \* the load button: textContent and disabled
    loading,       \* a loadAllData call is suspended at its await
    fetches,       \* the three fetch promises of the last loadAllData call
    cards,         \* the insight cards that were filled
    errorShown,    \* the recommendations list shows the error message
    shown,         \* which of login-prompt and dashboard-content is displayed
    authCheck,     \* what checkAuthStatus got from the status endpoint
    redis,         \* the serverless token store: null, or tokens by user id
    credentials,   \* the credentials of the serverless functions' oauth2Client
    res,           \* the last response a serverless function sent
    invocations    \* the bag of the serverless invocations that await an answer

\* the state of the endpoints
endpointVars == <<upstream>>

\* the state of the proxy server
proxyVars == <<cache, userTokens, sessions, pending, reply, oauth2Client>>

\* the state of the page
pageVars == <<currentUser, loadBtn, loading, fetches, cards, errorShown, shown,
              authCheck>>

\* the state of the serverless functions
serverlessVars == <<redis, credentials, res, invocations>>

vars == <<userData, initialized, outcome, insights, result, now, endpointVars,
          proxyVars, pageVars, serverlessVars>>

---------------------------------------------------------------------------
(* JavaScript helpers *)

\* the object {} and the value undefined read as "no property at all"
EmptyObj == [f \in {} |-> 0]

Has(o, f) == f \in DOMAIN o

\* o.f || 0
OrZero(o, f) == IF Has(o, f) /\ o[f] # 0 THEN o[f] ELSE 0

\* o.f < k and o.f > k: false when o.f is undefined
PropLt(o, f, k) == Has(o, f) /\ o[f] < k
PropGt(o, f, k) == Has(o, f) /\ o[f] > k

\* userData.calendar.data.meetingDensity: reading a property of undefined
\* raises a TypeError
ReadThrows(src) == ~Has(src, "data")

\* a variant of Clamp without the lower cap: Math.min(100, x)
ClampUpperOnly(x) == IF x > 100 THEN 100 ELSE x

\* Math.max(0, Math.min(100, x))
Clamp(x) == IF x < 0 THEN 0 ELSE IF x > 100 THEN 100 ELSE x

---------------------------------------------------------------------------
(* PersonalHealthAnalyzer *)

\* the value undefined where the source tests it (`if (!emailData)`)
Undefined == [undefined |-> TRUE]

IsUndefined(v) == Has(v, "undefined")

\* src.data for a source object src
DataOf(src) == IF Has(src, "data") THEN src.data ELSE Undefined

\* a variant of EmailBand whose thresholds are inclusive (<= for <)
EmailBandInclusive(stressLevel) ==
    IF stressLevel <= 300 THEN 20
    ELSE IF stressLevel <= 500 THEN 10
    ELSE IF stressLevel <= 700 THEN -10
    ELSE -25

\* the banding of stressLevel in calculateEmailStress
EmailBand(stressLevel) ==
    IF stressLevel < 300 THEN 20
    ELSE IF stressLevel < 500 THEN 10
    ELSE IF stressLevel < 700 THEN -10
    ELSE -25

\* calculateEmailStress(emailData); the percentage string of the
\* interpretation is display text and is not carried
calculateEmailStress(emailData) ==
    IF IsUndefined(emailData)
    THEN [stressLevel |-> 0, scoreAdjustment |-> 0,
          interpretation |-> [stressStatus |-> "No data"]]
    ELSE LET stressLevel == OrZero(emailData, "stressLevel")
             urgentCount == OrZero(emailData, "urgentCount")
             band == EmailBand(stressLevel)
             scoreAdjustment == IF urgentCount > 3 THEN band - 10 ELSE band
         IN [stressLevel |-> stressLevel,
             urgentCount |-> urgentCount,
             scoreAdjustment |-> scoreAdjustment,
             interpretation |->
                 [stressStatus |-> IF stressLevel > 700 THEN "High Stress"
                                   ELSE IF stressLevel > 400 THEN "Moderate Stress"
                                   ELSE "Low Stress"]]

\* a variant of CalendarBand whose thresholds are inclusive (<= for <)
CalendarBandInclusive(density) ==
    IF density <= 400 THEN 20
    ELSE IF density <= 600 THEN 5
    ELSE IF density <= 800 THEN -15
    ELSE -30

\* the banding of density in calculateMeetingDensity
CalendarBand(density) ==
    IF density < 400 THEN 20
    ELSE IF density < 600 THEN 5
    ELSE IF density < 800 THEN -15
    ELSE -30

\* calculateMeetingDensity(calendarData)
calculateMeetingDensity(calendarData) ==
    IF IsUndefined(calendarData)
    THEN [density |-> 0, scoreAdjustment |-> 0,
          interpretation |-> [scheduleStatus |-> "No data"]]
    ELSE LET density == OrZero(calendarData, "meetingDensity")
             focusTime == OrZero(calendarData, "focusTimeHours")
             declinableCount == OrZero(calendarData, "declinableCount")
             band == CalendarBand(density)
             scoreAdjustment == IF focusTime >= 30 THEN band + 10 ELSE band
         IN [density |-> density,
             focusTime |-> focusTime,
             declinableCount |-> declinableCount,
             scoreAdjustment |-> scoreAdjustment,
             interpretation |->
                 [scheduleStatus |-> IF density > 600 THEN "Overbooked"
                                     ELSE IF density > 400 THEN "Busy"
                                     ELSE "Balanced"]]

\* a variant of SleepDurationBand without the upper end of the optimal
\* band: more than 9 hours counts as optimal
SleepDurationBandNoUpper(sleepDuration) ==
    IF sleepDuration >= 70 THEN 20
    ELSE IF sleepDuration >= 60 THEN 5
    ELSE -20

\* the sleep duration banding in analyzeSleepPattern
SleepDurationBand(sleepDuration) ==
    IF sleepDuration >= 70 /\ sleepDuration <= 90 THEN 20
    ELSE IF sleepDuration >= 60 THEN 5
    ELSE IF sleepDuration < 60 THEN -20
    ELSE 0

\* analyzeSleepPattern(fitnessData); overallHealth = sleepQuality * 100 is
\* carried in the unit of sleepQuality (thousandths), times 100
analyzeSleepPattern(fitnessData) ==
    IF IsUndefined(fitnessData)
    THEN [overallHealth |-> 0, scoreAdjustment |-> 0,
          interpretation |-> [sleepStatus |-> "No data"]]
    ELSE LET sleepDuration == OrZero(fitnessData, "sleepDuration")
             sleepQuality == OrZero(fitnessData, "sleepQuality")
             stressLevel == OrZero(fitnessData, "stressLevel")
             dailySteps == OrZero(fitnessData, "dailySteps")
             duration == SleepDurationBand(sleepDuration)
             quality == IF sleepQuality > 700 THEN 10
                        ELSE IF sleepQuality < 500 THEN -10
                        ELSE 0
             activity == IF dailySteps >= 8000 THEN 10
                         ELSE IF dailySteps < 3000 THEN -10
                         ELSE 0
             stress == IF stressLevel > 700 THEN -15 ELSE 0
         IN [overallHealth |-> sleepQuality * 100,
             sleepDuration |-> sleepDuration,
             sleepQuality |-> sleepQuality,
             stressLevel |-> stressLevel,
             scoreAdjustment |-> duration + quality + activity + stress,
             interpretation |->
                 [sleepStatus |-> IF sleepDuration < 60 THEN "Sleep Deprived"
                                  ELSE IF sleepDuration < 70 THEN "Insufficient Sleep"
                                  ELSE "Healthy Sleep",
                  activityStatus |-> IF dailySteps < 5000 THEN "Sedentary"
                                     ELSE IF dailySteps < 8000 THEN "Lightly Active"
                                     ELSE "Active"]]

\* a variant of getStatusText whose thresholds are exclusive (> for >=)
getStatusTextExclusive(score) ==
    IF score > 80 THEN "Excellent - Thriving"
    ELSE IF score > 60 THEN "Good - Sustainable"
    ELSE IF score > 40 THEN "Fair - Needs Attention"
    ELSE IF score > 20 THEN "Poor - Action Required"
    ELSE "Critical - Immediate Intervention Needed"

\* getStatusText(score)
getStatusText(score) ==
    IF score >= 80 THEN "Excellent - Thriving"
    ELSE IF score >= 60 THEN "Good - Sustainable"
    ELSE IF score >= 40 THEN "Fair - Needs Attention"
    ELSE IF score >= 20 THEN "Poor - Action Required"
    ELSE "Critical - Immediate Intervention Needed"

\* the recommendation objects pushed by generateRecommendations
RecEmailHigh ==
    [priority |-> "HIGH",
     action |-> "Block 2 hours for deep work tomorrow",
     reason |-> "High email stress detected - need uninterrupted focus time",
     category |-> "Email Management"]

RecEmailMedium ==
    [priority |-> "MEDIUM",
     action |-> "Set up email filters for urgent keywords",
     reason |-> "Reduce reactive email checking",
     category |-> "Email Management"]

\* `Decline ${declinableCount} optional meetings this week`: the number
\* interpolated into the action is carried next to it
RecCalendarHigh(declinableCount) ==
    [priority |-> "HIGH",
     action |-> "Decline N optional meetings this week",
     declinableCount |-> declinableCount,
     reason |-> "Schedule overbooked - create focus time",
     category |-> "Calendar Optimization"]

RecSleepCritical ==
    [priority |-> "CRITICAL",
     action |-> "Aim for 7-8 hours of sleep tonight",
     reason |-> "Sleep deprivation affecting productivity and health",
     category |-> "Health & Wellness"]

RecScreenMedium ==
    [priority |-> "MEDIUM",
     action |-> "Reduce screen time 1 hour before bed",
     reason |-> "Improve sleep quality",
     category |-> "Health & Wellness"]

RecWalkMedium ==
    [priority |-> "MEDIUM",
     action |-> "Take a 15-minute walk during lunch",
     reason |-> "Low daily activity detected - boost energy and focus",
     category |-> "Health & Wellness"]

RecReviewCritical ==
    [priority |-> "CRITICAL",
     action |-> "Schedule a personal review meeting with yourself",
     reason |-> "Multiple health and productivity indicators are concerning",
     category |-> "Overall Wellness"]

RecPositiveInfo ==
    [priority |-> "INFO",
     action |-> "Great job! Maintain current healthy habits",
     reason |-> "All productivity and health metrics look excellent",
     category |-> "Positive Feedback"]

\* generateRecommendations raises a TypeError where it reads
\* userData.calendar.data.meetingDensity or userData.fitness.data.sleepDuration
\* of a source object that has no data property
generateRecommendationsThrows(ud) ==
    \/ Has(ud, "calendar") /\ ReadThrows(ud.calendar)
    \/ Has(ud, "fitness") /\ ReadThrows(ud.fitness)

\* a variant of SourceRecommendations whose activity block is the else
\* branch of the fitness block: no walk for the sleep deprived
SourceRecommendationsActivityElse(ud, ins) ==
    LET email ==
            IF ins.emailStress > 700
            THEN <<RecEmailHigh, RecEmailMedium>> ELSE <<>>
        schedule ==
            IF Has(ud, "calendar") /\ PropGt(ud.calendar.data, "meetingDensity", 600)
            THEN <<RecCalendarHigh(OrZero(ud.calendar.data, "declinableCount"))>>
            ELSE <<>>
        fitness ==
            IF Has(ud, "fitness") /\ PropLt(ud.fitness.data, "sleepDuration", 60)
            THEN <<RecSleepCritical, RecScreenMedium>>
            ELSE IF Has(ud, "fitness") /\ PropLt(ud.fitness.data, "dailySteps", 5000)
                 THEN <<RecWalkMedium>> ELSE <<>>
    IN email \o schedule \o fitness

\* the email, schedule, fitness and activity blocks of
\* generateRecommendations, in the order of the source
SourceRecommendations(ud, ins) ==
    LET email ==
            IF ins.emailStress > 700
            THEN <<RecEmailHigh, RecEmailMedium>> ELSE <<>>
        schedule ==
            IF Has(ud, "calendar") /\ PropGt(ud.calendar.data, "meetingDensity", 600)
            THEN <<RecCalendarHigh(OrZero(ud.calendar.data, "declinableCount"))>>
            ELSE <<>>
        sleep ==
            IF Has(ud, "fitness") /\ PropLt(ud.fitness.data, "sleepDuration", 60)
            THEN <<RecSleepCritical, RecScreenMedium>> ELSE <<>>
        activity ==
            IF Has(ud, "fitness") /\ PropLt(ud.fitness.data, "dailySteps", 5000)
            THEN <<RecWalkMedium>> ELSE <<>>
    IN email \o schedule \o sleep \o activity

\* the overall and the positive block of generateRecommendations
OverallRecommendation(score) == IF score < 40 THEN <<RecReviewCritical>> ELSE <<>>
PositiveRecommendation(score) == IF score >= 80 THEN <<RecPositiveInfo>> ELSE <<>>

\* a variant of generateRecommendations whose positive feedback is given
\* only when no other recommendation was emitted
generateRecommendationsPositiveAlone(ud, score, ins) ==
    LET others == SourceRecommendations(ud, ins) \o OverallRecommendation(score)
    IN IF others = <<>> THEN PositiveRecommendation(score) ELSE others

\* a variant of generateRecommendations that puts the overall CRITICAL
\* recommendation at the head of the list (unshift for push)
generateRecommendationsCriticalFirst(ud, score, ins) ==
    OverallRecommendation(score) \o SourceRecommendations(ud, ins)
        \o PositiveRecommendation(score)

\* generateRecommendations(userData, score, insights), where it returns
generateRecommendations(ud, score, ins) ==
    SourceRecommendations(ud, ins) \o OverallRecommendation(score)
        \o PositiveRecommendation(score)

\* the three source blocks of analyzeProductivityHealth: each present source
\* adds its scoreAdjustment to baseScore and pushes one adjustment
EmailAnalysis(ud) == calculateEmailStress(DataOf(ud.emails))
CalendarAnalysis(ud) == calculateMeetingDensity(DataOf(ud.calendar))
FitnessAnalysis(ud) == analyzeSleepPattern(DataOf(ud.fitness))

\* a variant of Adjustments that records an absent source as a source
\* without data instead of omitting it
AdjustmentsForAllSources(ud) ==
    <<[category |-> "Email Stress",
       impact |-> IF Has(ud, "emails") THEN EmailAnalysis(ud).scoreAdjustment ELSE 0,
       detail |-> IF Has(ud, "emails")
                  THEN EmailAnalysis(ud).interpretation.stressStatus ELSE "No data"],
      [category |-> "Schedule Health",
       impact |-> IF Has(ud, "calendar") THEN CalendarAnalysis(ud).scoreAdjustment ELSE 0,
       detail |-> IF Has(ud, "calendar")
                  THEN CalendarAnalysis(ud).interpretation.scheduleStatus ELSE "No data"],
      [category |-> "Sleep & Activity",
       impact |-> IF Has(ud, "fitness") THEN FitnessAnalysis(ud).scoreAdjustment ELSE 0,
       detail |-> IF Has(ud, "fitness")
                  THEN FitnessAnalysis(ud).interpretation.sleepStatus ELSE "No data"]>>

\* insights.adjustments after the three source blocks
Adjustments(ud) ==
    (IF Has(ud, "emails")
     THEN <<[category |-> "Email Stress",
             impact |-> EmailAnalysis(ud).scoreAdjustment,
             detail |-> EmailAnalysis(ud).interpretation.stressStatus]>>
     ELSE <<>>)
    \o (IF Has(ud, "calendar")
        THEN <<[category |-> "Schedule Health",
                impact |-> CalendarAnalysis(ud).scoreAdjustment,
                detail |-> CalendarAnalysis(ud).interpretation.scheduleStatus]>>
        ELSE <<>>)
    \o (IF Has(ud, "fitness")
        THEN <<[category |-> "Sleep & Activity",
                impact |-> FitnessAnalysis(ud).scoreAdjustment,
                detail |-> FitnessAnalysis(ud).interpretation.sleepStatus]>>
        ELSE <<>>)

\* a variant of BaseScore that caps the running score after every source
BaseScoreCappedPerSource(ud) ==
    LET afterEmail == IF Has(ud, "emails")
                      THEN Clamp(50 + EmailAnalysis(ud).scoreAdjustment) ELSE 50
        afterCalendar == IF Has(ud, "calendar")
                         THEN Clamp(afterEmail + CalendarAnalysis(ud).scoreAdjustment)
                         ELSE afterEmail
        afterFitness == IF Has(ud, "fitness")
                        THEN Clamp(afterCalendar + FitnessAnalysis(ud).scoreAdjustment)
                        ELSE afterCalendar
    IN afterFitness

\* a variant of BaseScore that scores an absent source like a source whose
\* values are all zero instead of skipping it
BaseScoreAbsentAsZero(ud) ==
    50 + (IF Has(ud, "emails") THEN EmailAnalysis(ud).scoreAdjustment
          ELSE calculateEmailStress(EmptyObj).scoreAdjustment)
       + (IF Has(ud, "calendar") THEN CalendarAnalysis(ud).scoreAdjustment
          ELSE calculateMeetingDensity(EmptyObj).scoreAdjustment)
       + (IF Has(ud, "fitness") THEN FitnessAnalysis(ud).scoreAdjustment
          ELSE analyzeSleepPattern(EmptyObj).scoreAdjustment)

\* baseScore after the three blocks, starting from 50
BaseScore(ud) ==
    LET afterEmail == IF Has(ud, "emails")
                      THEN 50 + EmailAnalysis(ud).scoreAdjustment ELSE 50
        afterCalendar == IF Has(ud, "calendar")
                         THEN afterEmail + CalendarAnalysis(ud).scoreAdjustment
                         ELSE afterEmail
        afterFitness == IF Has(ud, "fitness")
                        THEN afterCalendar + FitnessAnalysis(ud).scoreAdjustment
                        ELSE afterCalendar
    IN afterFitness

\* const finalScore = Math.max(0, Math.min(100, baseScore))
FinalScore(ud) == Clamp(BaseScore(ud))

Insights(ud) ==
    [emailStress |-> IF Has(ud, "emails") THEN EmailAnalysis(ud).stressLevel ELSE 0,
     scheduleHealth |-> IF Has(ud, "calendar") THEN CalendarAnalysis(ud).density ELSE 0,
     fitnessHealth |-> IF Has(ud, "fitness") THEN FitnessAnalysis(ud).overallHealth ELSE 0,
     adjustments |-> Adjustments(ud)]

\* analyzeProductivityHealth(userData) raises what generateRecommendations raises
analyzeProductivityHealthThrows(ud) == generateRecommendationsThrows(ud)

\* the object analyzeProductivityHealth(userData) returns at clock time t
analyzeProductivityHealth(ud, t) ==
    [score |-> FinalScore(ud),
     status |-> getStatusText(FinalScore(ud)),
     insights |-> Insights(ud),
     recommendations |-> generateRecommendations(ud, FinalScore(ud), Insights(ud)),
     timestamp |-> t]

---------------------------------------------------------------------------
(* Bounds of the model *)

\* how far the clock advances
MaxClock == 1

---------------------------------------------------------------------------
(* The inputs: what the frontend can hand to the analyzer *)

\* objects with the one property f, or without it
Req(f, S) == {f :> v : v \in S}
Opt(f, S) == {EmptyObj} \cup Req(f, S)

\* the body of a 400/401/500 answer: an object without a data property
ErrorBody == [error |-> "Internal server error"]

\* EMAIL payloads: every band edge of stressLevel and of urgentCount,
\* each property also missing
FineEmail ==
    {a @@ b : a \in Opt("stressLevel", {299, 300, 499, 500, 699, 700, 701}),
              b \in Opt("urgentCount", {3, 4})}

\* CALENDAR payloads: every band edge of meetingDensity and focusTimeHours
FineCalendar ==
    {a @@ b @@ c : a \in Opt("meetingDensity", {399, 400, 599, 600, 601, 799, 800}),
                   b \in Opt("focusTimeHours", {29, 30}),
                   c \in Opt("declinableCount", {2})}

\* ACTIVITY payloads: every band edge of the four properties
FineFitness ==
    {a @@ b @@ c @@ d : a \in Opt("sleepDuration", {59, 60, 69, 70, 90, 91}),
                        b \in Opt("sleepQuality", {499, 500, 700, 701}),
                        c \in Opt("stressLevel", {700, 701}),
                        d \in Opt("dailySteps", {2999, 3000, 4999, 5000, 7999, 8000})}

\* one payload per delta a source can contribute, to combine with the others
CoarseEmail ==
    {EmptyObj,
     [stressLevel |-> 500, urgentCount |-> 3],
     [stressLevel |-> 701, urgentCount |-> 4]}

CoarseCalendar ==
    {EmptyObj,
     [meetingDensity |-> 399, focusTimeHours |-> 30, declinableCount |-> 2],
     [meetingDensity |-> 601, focusTimeHours |-> 30, declinableCount |-> 2],
     [meetingDensity |-> 800, focusTimeHours |-> 29, declinableCount |-> 2]}

CoarseFitness ==
    {EmptyObj} \cup
    {a @@ b @@ c @@ d : a \in Req("sleepDuration", {59, 70}),
                        b \in Req("sleepQuality", {499, 701}),
                        c \in Req("stressLevel", {700, 701}),
                        d \in Req("dailySteps", {2999, 8000})}

\* the scenarios of the specification's section 8
ScenarioA ==
    "emails" :> [data |-> [stressLevel |-> 380, urgentCount |-> 5,
                           totalEmails |-> 10, unreadCount |-> 2]]
ScenarioB ==
    "calendar" :> [data |-> [meetingDensity |-> 750, focusTimeHours |-> 10]]
ScenarioC ==
    "fitness" :> [data |-> [sleepDuration |-> 50, sleepQuality |-> 400,
                            dailySteps |-> 2000, stressLevel |-> 800]]

\* each source in turn over all its band edges, the other two over one
\* payload per delta, and the scenarios; a source is absent from userData,
\* or an error body, or carries a payload
InputsWith(scenarios) ==
    LET Source(k, payloads) ==
            {EmptyObj} \cup {k :> ErrorBody} \cup {k :> [data |-> d] : d \in payloads}
        UserDataOver(E, C, F) ==
            {e @@ c @@ f : e \in Source("emails", E),
                           c \in Source("calendar", C),
                           f \in Source("fitness", F)}
    IN UserDataOver(FineEmail, CoarseCalendar, CoarseFitness)
       \cup UserDataOver(CoarseEmail, FineCalendar, CoarseFitness)
       \cup UserDataOver(CoarseEmail, CoarseCalendar, FineFitness)
       \cup scenarios

---------------------------------------------------------------------------
(* The state machine *)

\* how many handlers of a server await an answer at the same time
MaxInFlight == 2

\* a data request is [source, query, from]; its query is an object that
\* may hold userId and date; from is the browser that sends it, "guest" for
\* a browser that never signs in and otherwise the user the browser is of
DataRequests ==
    {[source |-> "gmail", query |-> EmptyObj, from |-> "guest"],
     [source |-> "gmail", query |-> [userId |-> "u1"], from |-> "u1"],
     [source |-> "calendar", query |-> [userId |-> "u1"], from |-> "u1"],
     [source |-> "calendar", query |-> [userId |-> "u1", date |-> "2025-01-15"],
      from |-> "guest"]}

\* the proxy server after start: empty Maps, nothing in flight, an OAuth
\* client without credentials
ProxyStarted ==
    /\ cache = EmptyObj
    /\ userTokens = EmptyObj
    /\ sessions = {}
    /\ pending = EmptyBag
    /\ reply = Undefined
    /\ oauth2Client = EmptyObj

\* the value null
Null == [null |-> TRUE]

\* the truthiness of null, undefined, a promise or an object
Truthy(v) == v # Null /\ v # [undefined |-> TRUE]

\* the page after new LifeNavigator(): nobody signed in, the button and the
\* displayed parts as the page defines them, no fetch made, the cards and
\* the list untouched, the status request of checkAuthStatus on its way
PageOpened ==
    /\ currentUser = Null
    /\ loadBtn = [textContent |-> "Load Data", disabled |-> FALSE]
    /\ loading = FALSE
    /\ fetches = [k \in {"emails", "calendar", "fitness"} |-> [state |-> "none"]]
    /\ cards = {}
    /\ errorShown = FALSE
    /\ shown = "page"
    /\ authCheck = [state |-> "pending"]

\* the serverless functions before their first invocation, with the token
\* store store: the OAuth client holds no credentials
ColdStart(store) ==
    /\ redis = store
    /\ credentials = EmptyObj
    /\ res = Undefined
    /\ invocations = EmptyBag

\* new LifeNavigator(): the analyzer is constructed, userData is what
\* loadAllData assembled, nothing is analyzed yet
Init ==
    /\ userData \in InputsWith({ScenarioA, ScenarioB, ScenarioC})
    /\ initialized = TRUE
    /\ outcome = "none"
    /\ insights = Undefined
    /\ result = Undefined
    /\ now = 0
    /\ upstream = Undefined
    /\ ProxyStarted
    /\ PageOpened
    /\ ColdStart(Null)

\* a variant of Analyze that writes the default of a missing declinableCount
\* back into the calendar payload it was given
AnalyzeWritingDefaults ==
    /\ insights' = Insights(userData)
    /\ outcome' = IF analyzeProductivityHealthThrows(userData)
                  THEN "threw" ELSE "returned"
    /\ result' = IF analyzeProductivityHealthThrows(userData)
                 THEN Undefined
                 ELSE analyzeProductivityHealth(userData, now)
    /\ userData' =
           IF Has(userData, "calendar") /\ Has(userData.calendar, "data")
              /\ ~Has(userData.calendar.data, "declinableCount")
           THEN [userData EXCEPT !.calendar =
                    [data |-> userData.calendar.data @@ [declinableCount |-> 0]]]
           ELSE userData
    /\ UNCHANGED <<serverlessVars, initialized, now, endpointVars, proxyVars, pageVars>>

\* this.analyzer.analyzeProductivityHealth(this.userData): the three source
\* blocks fill insights, then generateRecommendations returns or raises
Analyze ==
    /\ insights' = Insights(userData)
    /\ outcome' = IF analyzeProductivityHealthThrows(userData)
                  THEN "threw" ELSE "returned"
    /\ result' = IF analyzeProductivityHealthThrows(userData)
                 THEN Undefined
                 ELSE analyzeProductivityHealth(userData, now)
    /\ UNCHANGED <<serverlessVars, userData, initialized, now, endpointVars, proxyVars, pageVars>>

\* time passes
Tick ==
    /\ now < MaxClock
    /\ now' = now + 1
    /\ UNCHANGED <<serverlessVars, userData, initialized, outcome, insights, result, endpointVars,
                   proxyVars, pageVars>>

Next == Analyze \/ Tick

Spec == Init /\ [][Next]_vars

---------------------------------------------------------------------------
(* The numbers of the endpoints.                                            *)
(*                                                                          *)
(* The endpoints compute with IEEE-754 doubles: every division, product     *)
(* and sum is rounded to the nearest double (a tie to the even              *)
(* significand), and toFixed rounds the binary value it is given, not the   *)
(* decimal fraction the value stands for.  A double is [neg, m, e], the     *)
(* value (-1)^neg * m * 2^e, where the significand m < 2^53 is a sequence   *)
(* of limbs of 14 bits, the least significant first.                        *)

\* the limb i of the number N, 0 beyond its length
LimbAt(N, i) == IF i >= 1 /\ i <= Len(N) THEN N[i] ELSE 0

\* the number of bits of the number N
RECURSIVE BitLength(_)
BitLength(N) ==
    LET RECURSIVE Bits(_)
        Bits(v) == IF v = 0 THEN 0 ELSE 1 + Bits(v \div 2)
    IN IF N = <<>> THEN 0
       ELSE IF N[Len(N)] = 0 THEN BitLength(SubSeq(N, 1, Len(N) - 1))
       ELSE 14 * (Len(N) - 1) + Bits(N[Len(N)])

\* N without its s lowest bits
ShiftRight(N, s) ==
    LET w == s \div 14
        b == s % 14
    IN [i \in 1..(IF Len(N) > w THEN Len(N) - w ELSE 0) |->
           (LimbAt(N, i + w) \div 2^b)
               + (LimbAt(N, i + w + 1) % 2^b) * 2^(14 - b)] \o <<>>

\* N times 2^s
ShiftLeft(N, s) ==
    LET w == s \div 14
        b == s % 14
    IN [i \in 1..(Len(N) + w + 1) |->
           (LimbAt(N, i - w) % 2^(14 - b)) * 2^b
               + (LimbAt(N, i - w - 1) \div 2^(14 - b))] \o <<>>

\* the limbs (below 2^14 = 16384) of a sequence of column sums, with the
\* carry c
RECURSIVE Carried(_, _)
Carried(N, c) ==
    IF N = <<>>
    THEN IF c = 0 THEN <<>> ELSE <<c % 16384>> \o Carried(<<>>, c \div 16384)
    ELSE <<(Head(N) + c) % 16384>> \o Carried(Tail(N), (Head(N) + c) \div 16384)

\* the sum and the product of two numbers
AddBig(A, B) ==
    Carried([i \in 1..(IF Len(A) > Len(B) THEN Len(A) ELSE Len(B)) |->
                LimbAt(A, i) + LimbAt(B, i)] \o <<>>, 0)

MulBig(A, B) ==
    LET RECURSIVE Column(_, _)
        Column(k, i) ==
            IF i = 0 THEN 0
            ELSE LimbAt(A, i) * LimbAt(B, k - i + 1) + Column(k, i - 1)
    IN Carried([k \in 1..(Len(A) + Len(B)) |-> Column(k, Len(A))] \o <<>>, 0)

\* the double nearest to N * 2^e (a tie to the even significand), where
\* inexact says that N lacks bits below its lowest one
RoundToDouble(neg, N, e, inexact) ==
    LET s == BitLength(N) - 53
        \* the bit k of M, counted from 0
        BitAt(M, k) == (LimbAt(M, k \div 14 + 1) \div 2^(k % 14)) % 2
        \* the k lowest bits of N are zero
        LowZero(k) ==
            /\ \A i \in 1..(k \div 14) : LimbAt(N, i) = 0
            /\ LimbAt(N, k \div 14 + 1) % 2^(k % 14) = 0
    IN IF s <= 0 THEN [neg |-> neg, m |-> ShiftRight(N, 0), e |-> e]
       ELSE LET q == ShiftRight(N, s)
                up == /\ BitAt(N, s - 1) = 1
                      /\ \/ ~LowZero(s - 1)
                         \/ inexact
                         \/ BitAt(q, 0) = 1
                r == IF up THEN AddBig(q, <<1>>) ELSE q
            IN IF BitLength(r) > 53
               THEN [neg |-> neg, m |-> ShiftRight(r, 1), e |-> e + s + 1]
               ELSE [neg |-> neg, m |-> r, e |-> e + s]

\* the double of the integer n
Num(n) ==
    [neg |-> n < 0, m |-> Carried(<<IF n < 0 THEN -n ELSE n>>, 0), e |-> 0]

\* n / d for integers n and d > 0: the double nearest to the quotient, from
\* six limbs of its fraction and the remainder that is left after them
Over(n, d) ==
    LET a == IF n < 0 THEN -n ELSE n
        \* the limbs of the fraction r / d, the most significant first
        RECURSIVE FractionLimbs(_, _)
        FractionLimbs(r, k) ==
            IF k = 0 THEN <<>>
            ELSE <<(r * 16384) \div d>> \o FractionLimbs((r * 16384) % d, k - 1)
        RECURSIVE FractionRest(_, _)
        FractionRest(r, k) ==
            IF k = 0 THEN r ELSE FractionRest((r * 16384) % d, k - 1)
        Reversed(sq) == [i \in 1..Len(sq) |-> sq[Len(sq) + 1 - i]] \o <<>>
    IN RoundToDouble(n < 0,
                     Reversed(FractionLimbs(a % d, 6)) \o Carried(<<a \div d>>, 0),
                     -84,
                     FractionRest(a % d, 6) # 0)

\* x * y
Times(x, y) == RoundToDouble(x.neg # y.neg, MulBig(x.m, y.m), x.e + y.e, FALSE)

\* x + y of two doubles that are not negative
Plus(x, y) ==
    LET e == IF x.e < y.e THEN x.e ELSE y.e
    IN RoundToDouble(FALSE,
                     AddBig(ShiftLeft(x.m, x.e - e), ShiftLeft(y.m, y.e - e)),
                     e, FALSE)

\* x < y
Less(x, y) ==
    LET e == IF x.e < y.e THEN x.e ELSE y.e
        X == ShiftLeft(x.m, x.e - e)
        Y == ShiftLeft(y.m, y.e - e)
        \* A < B, compared from the limb i down
        RECURSIVE LessBig(_, _, _)
        LessBig(A, B, i) ==
            IF i = 0 THEN FALSE
            ELSE IF LimbAt(A, i) # LimbAt(B, i) THEN LimbAt(A, i) < LimbAt(B, i)
            ELSE LessBig(A, B, i - 1)
        n == IF Len(X) > Len(Y) THEN Len(X) ELSE Len(Y)
    IN IF x.neg # y.neg
       THEN x.neg /\ ~(BitLength(x.m) = 0 /\ BitLength(y.m) = 0)
       ELSE IF x.neg THEN LessBig(Y, X, n) ELSE LessBig(X, Y, n)

\* Math.min(x, y) and Math.max(x, y)
MathMin(x, y) == IF Less(y, x) THEN y ELSE x
MathMax(x, y) == IF Less(x, y) THEN y ELSE x

\* the integer part of the magnitude N * 2^e, an integer below 2^31
Whole(N, e) ==
    LET M == IF e < 0 THEN ShiftRight(N, -e) ELSE ShiftLeft(N, e)
    IN LimbAt(M, 1) + 16384 * LimbAt(M, 2) + 16384 * 16384 * LimbAt(M, 3)

\* Math.floor(x) of a double that is not negative
MathFloor(x) == Whole(x.m, x.e)

\* parseFloat(x.toFixed(digits)) in units of 10^-digits: the integer n for
\* which n / 10^digits - x is nearest to zero, the larger n of two
toFixed(x, digits) ==
    LET n == (Whole(MulBig(x.m, Carried(<<2 * 10^digits>>, 0)), x.e) + 1) \div 2
    IN IF x.neg THEN -n ELSE n

---------------------------------------------------------------------------
(* The endpoints that turn upstream data into source payloads               *)
(* (src/server/personal-proxy.js, src/api/gmail/stress-level.js,            *)
(* src/api/calendar/schedule-health.js).                                    *)
(*                                                                          *)
(* A message is [keyword, unread, readable]: whether its subject holds a    *)
(* stress keyword, whether it is labelled UNREAD, whether its metadata can  *)
(* be fetched.  An event is [start, end] in minutes of the day, with an     *)
(* attendees list when it has one; an attendee is [self, optional,          *)
(* responseStatus].  A value of Math.random() is carried in units of        *)
(* 1/10000: r stands for the double nearest to r/10000.  Of the display     *)
(* text of a body the status string and the constant confidence are         *)
(* carried.                                                                 *)

\* 8 work hours
workDayMinutes == 480

\* Math.min(20, totalEmails): the messages whose details the Gmail endpoint
\* fetches are messages.slice(0, 20)
analyzedEmails(totalEmails) == IF totalEmails < 20 THEN totalEmails ELSE 20

\* the doubles of the literals of the endpoints
Literal ==
    [zero |-> Num(0), one |-> Num(1), three |-> Num(3), five |-> Num(5),
     six |-> Num(6), seven |-> Num(7),
     threeTenths |-> Over(3, 10), fourTenths |-> Over(4, 10),
     fiveTenths |-> Over(5, 10), sixTenths |-> Over(6, 10),
     sevenTenths |-> Over(7, 10)]

\* a variant of baseStress that weighs the urgent ratio with 0.4 and the
\* unread ratio with 0.6
baseStressUnreadFirst(totalEmails, urgentCount, unreadCount) ==
    LET urgentRatio == IF totalEmails > 0 THEN Over(urgentCount, totalEmails) ELSE Literal.zero
        unreadRatio == IF totalEmails > 0 THEN Over(unreadCount, totalEmails) ELSE Literal.zero
    IN Plus(Times(urgentRatio, Literal.fourTenths), Times(unreadRatio, Literal.sixTenths))

\* baseStress = (urgentRatio * 0.6) + (unreadRatio * 0.4), where the ratios
\* are 0 when no message was listed
baseStress(totalEmails, urgentCount, unreadCount) ==
    LET urgentRatio == IF totalEmails > 0 THEN Over(urgentCount, totalEmails) ELSE Literal.zero
        unreadRatio == IF totalEmails > 0 THEN Over(unreadCount, totalEmails) ELSE Literal.zero
    IN Plus(Times(urgentRatio, Literal.sixTenths), Times(unreadRatio, Literal.fourTenths))

\* the data object of the Gmail endpoint for the stress and the counts its
\* loop came to: parseFloat(baseStress.toFixed(3)) in thousandths
stressLevelData(stress, totalEmails, urgentCount, unreadCount) ==
    [stressLevel |-> toFixed(stress, 3),
     urgentCount |-> urgentCount,
     totalEmails |-> totalEmails,
     unreadCount |-> unreadCount]

\* the result object the Gmail endpoint builds at time t for the user userId
stressLevelBody(userId, totalEmails, urgentCount, unreadCount, t) ==
    LET stress == baseStress(totalEmails, urgentCount, unreadCount)
    IN [type |-> "email_stress",
        user |-> [userId |-> userId],
        data |-> stressLevelData(stress, totalEmails, urgentCount, unreadCount),
        metadata |-> [timestamp |-> t,
                      analyzedEmails |-> analyzedEmails(totalEmails)],
        interpretation |->
            [stressStatus |-> IF Less(Literal.sevenTenths, stress) THEN "High Stress"
                              ELSE IF Less(Literal.fourTenths, stress) THEN "Moderate Stress"
                              ELSE "Low Stress",
             confidence |-> "high"]]

\* event.attendees && event.attendees.length > 0
IsMeeting(event) == Has(event, "attendees") /\ Len(event.attendees) > 0

\* event.attendees.find(a => a.self) is optional or tentative
IsDeclinable(event) ==
    \E i \in DOMAIN event.attendees :
        /\ event.attendees[i].self
        /\ \A j \in 1..(i - 1) : ~event.attendees[j].self
        /\ \/ event.attendees[i].optional
           \/ event.attendees[i].responseStatus = "tentative"

\* a variant of MeetingMinutes that adds up the events without attendees too
RECURSIVE EventMinutes(_)
EventMinutes(events) ==
    IF events = <<>> THEN 0
    ELSE (Head(events).end - Head(events).start) + EventMinutes(Tail(events))

\* meetingMinutes after the loop over the events: (end - start) in minutes
\* of every event that has attendees
RECURSIVE MeetingMinutes(_)
MeetingMinutes(events) ==
    IF events = <<>> THEN 0
    ELSE (IF IsMeeting(Head(events))
          THEN Head(events).end - Head(events).start ELSE 0)
         + MeetingMinutes(Tail(events))

\* Math.min(1.0, meetingMinutes / workDayMinutes)
meetingDensity(meetingMinutes) ==
    MathMin(Literal.one, Over(meetingMinutes, workDayMinutes))

\* Math.max(0, (workDayMinutes - meetingMinutes) / 60)
focusTimeHours(meetingMinutes) ==
    MathMax(Literal.zero, Over(workDayMinutes - meetingMinutes, 60))

\* the data object of the calendar endpoint for the density and the focus
\* time of its events: the density toFixed(2), in thousandths, and the
\* focus time toFixed(1), in tenths of an hour
scheduleHealthData(events, density, focus) ==
    LET meetings == {i \in DOMAIN events : IsMeeting(events[i])}
    IN [meetingDensity |-> 10 * toFixed(density, 2),
        totalEvents |-> Len(events),
        meetingCount |-> Cardinality(meetings),
        focusTimeHours |-> toFixed(focus, 1),
        declinableCount |->
            Cardinality({i \in meetings : IsDeclinable(events[i])})]

\* the result object the calendar endpoint builds at time t for the query
scheduleHealthBody(query, events, t) ==
    LET minutes == MeetingMinutes(events)
        density == meetingDensity(minutes)
    IN [type |-> "schedule_health",
        user |-> [userId |-> query.userId],
        data |-> scheduleHealthData(events, density, focusTimeHours(minutes)),
        metadata |-> [timestamp |-> t,
                      dateRange |-> IF Has(query, "date") /\ query.date # ""
                                    THEN query.date ELSE "today",
                      meetingMinutes |-> minutes],
        interpretation |->
            [scheduleStatus |-> IF Less(Literal.sixTenths, density) THEN "Overbooked"
                                ELSE IF Less(Literal.fourTenths, density) THEN "Busy"
                                ELSE "Balanced",
             confidence |-> "high"]]

\* Math.floor(Math.random() * k) for the random value r
FloorRandom(r, k) == MathFloor(Times(Over(r, 10000), Num(k)))

\* 6000 + Math.floor(Math.random() * 4000) in good weather (temp >= 15 &&
\* temp <= 25 && windSpeed < 20 && humidity < 70), else
\* 2000 + Math.floor(Math.random() * 3000)
dailySteps(weather, r) ==
    LET isGoodWeather == /\ weather.temperature >= 15
                         /\ weather.temperature <= 25
                         /\ weather.windSpeed < 20
                         /\ weather.humidity < 70
    IN IF isGoodWeather THEN 6000 + FloorRandom(r, 4000)
       ELSE 2000 + FloorRandom(r, 3000)

\* 5 + (Math.random() * 3)
sleepDuration(r) == Plus(Literal.five, Times(Over(r, 10000), Literal.three))

\* 0.5 + (Math.random() * 0.3)
sleepQuality(r) == Plus(Literal.fiveTenths, Times(Over(r, 10000), Literal.threeTenths))

\* 0.4 + (Math.random() * 0.4)
stressLevel(r) == Plus(Literal.fourTenths, Times(Over(r, 10000), Literal.fourTenths))

\* a variant of fitnessSummaryData that surfaces its ratios with three
\* decimals
fitnessSummaryDataThreeDecimals(weather, random, sleep) ==
    LET steps == dailySteps(weather, random.steps)
    IN [sleepDuration |-> toFixed(sleep, 1),
        sleepQuality |-> toFixed(sleepQuality(random.quality), 3),
        dailySteps |-> steps,
        activeMinutes |-> steps \div 100,
        stressLevel |-> toFixed(stressLevel(random.stress), 3),
        restingHeartRate |-> 60 + FloorRandom(random.heart, 20)]

\* the data object of the fitness endpoint for the sleep duration it drew:
\* sleepDuration toFixed(1) in tenths of an hour, sleepQuality and
\* stressLevel toFixed(2) in thousandths, activeMinutes
\* Math.floor(dailySteps / 100)
fitnessSummaryData(weather, random, sleep) ==
    LET steps == dailySteps(weather, random.steps)
    IN [sleepDuration |-> toFixed(sleep, 1),
        sleepQuality |-> 10 * toFixed(sleepQuality(random.quality), 2),
        dailySteps |-> steps,
        activeMinutes |-> steps \div 100,
        stressLevel |-> 10 * toFixed(stressLevel(random.stress), 2),
        restingHeartRate |-> 60 + FloorRandom(random.heart, 20)]

\* the result object the fitness endpoint builds at time t for the user
\* userId and the days it covers
fitnessSummaryBody(userId, daysCount, weather, random, t) ==
    LET sleep == sleepDuration(random.sleep)
    IN [type |-> "fitness_summary",
        user |-> [userId |-> userId],
        data |-> fitnessSummaryData(weather, random, sleep),
        metadata |-> [timestamp |-> t, daysCovered |-> daysCount,
                      weather |-> weather],
        interpretation |->
            [sleepStatus |-> IF Less(sleep, Literal.six) THEN "Sleep Deprived"
                             ELSE IF Less(sleep, Literal.seven) THEN "Insufficient Sleep"
                             ELSE "Healthy Sleep",
             confidence |-> "high"]]

---------------------------------------------------------------------------
(* What the upstream services answer.                                       *)
(*                                                                          *)
(* upstream is [messages, events, weather, random]: the inbox and the       *)
(* calendar of every Google account, the weather the forecast reports and   *)
(* the values the calls of Math.random() return, in the order of the        *)
(* calls of the fitness endpoint.                                           *)

\* how many events the calendar of a day holds at most
MaxEvents == 2

\* maxResults of gmail.users.messages.list
maxResults == 50

\* the Google accounts that sign in
Accounts == {"u1", "u2"}

\* the tokens Google issues for a user
TokensOf(u) == [access_token |-> u]

\* an inbox of total messages: the first urgent ones carry a keyword, the
\* last unread ones of the analyzed part are unread
Inbox(total, urgent, unread) ==
    [i \in 1..total |->
        [keyword |-> i <= urgent,
         unread |-> /\ i <= (IF total < 20 THEN total ELSE 20)
                    /\ i > (IF total < 20 THEN total ELSE 20) - unread,
         readable |-> TRUE]]

\* inboxes of up to the 20 analyzed messages (with 16 messages a ratio
\* falls on half a thousandth), an inbox of maxResults messages whose
\* messages behind the first 20 are all urgent and unread, and an inbox of
\* urgent unread messages, the first of which cannot be fetched
Inboxes ==
    {Inbox(x[1], x[2], x[3]) : x \in
        {<<0, 0, 0>>, <<1, 1, 0>>, <<3, 3, 2>>, <<10, 5, 2>>, <<16, 1, 0>>,
         <<20, 20, 20>>}}
    \cup {[i \in 1..maxResults |->
              [keyword |-> i <= 5 \/ i > 20, unread |-> i \in {19, 20} \/ i > 20,
               readable |-> TRUE]]}
    \cup {[i \in 1..3 |-> [keyword |-> TRUE, unread |-> TRUE, readable |-> i > 1]]}

Attendee(self, optional, responseStatus) ==
    [self |-> self, optional |-> optional, responseStatus |-> responseStatus]

\* the days of at most MaxEvents events (09:00-11:00 alone, 09:15-09:30 as a
\* required attendee, 13:00-14:05 as an optional one, 10:00-15:00
\* tentatively, and a meeting of others whose end, 08:00, precedes its
\* start, 10:00), and days of one meeting of 9 and of 36 minutes, whose
\* density and focus time fall next to half a step
EventLists ==
    LET EventKinds ==
            {[start |-> 540, end |-> 660],
             [start |-> 555, end |-> 570,
              attendees |-> <<Attendee(FALSE, FALSE, "accepted"),
                              Attendee(TRUE, FALSE, "accepted")>>],
             [start |-> 780, end |-> 845,
              attendees |-> <<Attendee(TRUE, TRUE, "needsAction")>>],
             [start |-> 600, end |-> 900,
              attendees |-> <<Attendee(TRUE, FALSE, "tentative"),
                              Attendee(FALSE, TRUE, "accepted")>>],
             [start |-> 600, end |-> 480,
              attendees |-> <<Attendee(FALSE, TRUE, "accepted")>>]}
        \* the days of n events, in the order of their start times
        \* (orderBy: 'startTime')
        Days(n) == {day \in [1..n -> EventKinds] :
                       \A i, j \in 1..n : i < j => day[i].start <= day[j].start}
    IN UNION {Days(n) : n \in 0..MaxEvents}
       \cup {<<[start |-> 540, end |-> 540 + minutes,
                attendees |-> <<Attendee(TRUE, FALSE, "accepted")>>]>> :
                 minutes \in {9, 36}}

\* what upstream answers while the proxy alone is looked at: the account u1
\* holds one urgent message and an empty calendar, the inbox of every other
\* account holds two urgent unread messages, its calendar one meeting; the
\* weather is mild
DefaultUpstream ==
    [messages |-> [a \in Accounts |->
                      IF a = "u1" THEN Inbox(1, 1, 0) ELSE Inbox(2, 2, 2)],
     events |-> [a \in Accounts |->
                    IF a = "u1" THEN <<>>
                    ELSE <<[start |-> 540, end |-> 600,
                            attendees |-> <<Attendee(TRUE, FALSE, "accepted")>>]>>],
     weather |-> [temperature |-> 20, windSpeed |-> 10, humidity |-> 50],
     random |-> [sleep |-> 7600, steps |-> 4133, quality |-> 4133, stress |-> 3200,
                 heart |-> 0]]

\* the draws of one request, values of Math.random() in units of 1/10000,
\* all draws alike
RandomDraws ==
    {[f \in {"sleep", "steps", "quality", "stress", "heart"} |-> r] :
        r \in {0, 90, 875, 2500, 3200, 3500, 4133, 5005, 5700, 7600, 9999}}

\* each source in turn over its inputs: what the upstream of one source
\* answers, the inbox, the calendar, or the weather (mild or hot) and the
\* draws
UpstreamInputs ==
    {[messages |-> [DefaultUpstream.messages EXCEPT !["u1"] = m]] : m \in Inboxes}
    \cup {[events |-> [DefaultUpstream.events EXCEPT !["u1"] = e]] : e \in EventLists}
    \cup {[weather |-> DefaultUpstream.weather, random |-> d] : d \in RandomDraws}
    \cup {[weather |-> [temperature |-> 30, windSpeed |-> 10, humidity |-> 50],
            random |-> d] :
              d \in {r \in RandomDraws : r.steps \in {3200, 3500, 9999}}}

---------------------------------------------------------------------------
(* The proxy server and its response cache (src/server/personal-proxy.js).  *)
(*                                                                          *)
(* The clock counts minutes.  A handler runs from the arrival of its        *)
(* request to its first await in one step and from each await to the next   *)
(* in one step; between two steps of a handler the steps of the other       *)
(* handlers take place.  A suspended handler is                             *)
(*   [request, await, with, used, messages, i, urgentCount, unreadCount]:   *)
(* the call it awaits and the credentials this call was made with, the      *)
(* credentials of all its calls so far, and the local variables of the      *)
(* Gmail loop.  Cache keys are the strings the template strings of the      *)
(* source give.  A request is [source, from] with the query or the code it  *)
(* carries; a userId and a date are strings, days is a sequence of          *)
(* characters.                                                              *)

\* 2 * 60 * 1000 ms
CACHE_TTL == 2

\* the user whose requests the cache is watched for
Users == {"u1"}

\* the number of handlers that await an answer
InFlight == BagCardinality(pending)

\* the number of handlers of the request req in a bag of handlers
AwaitingIn(handlers, req) ==
    BagCardinality([h \in {x \in BagToSet(handlers) : x.request = req} |->
                       handlers[h]])

\* parseInt(s) of the characters s, 0 for NaN: white space, a sign, a
\* prefix 0x for the radix 16, then the digits up to the first character
\* that is none
parseInt(s) ==
    LET \* the value of a character as a digit, 99 for a character that is none
        DigitOf(c) ==
            CASE c = "0" -> 0 [] c = "1" -> 1 [] c = "2" -> 2 [] c = "3" -> 3
              [] c = "4" -> 4 [] c = "5" -> 5 [] c = "6" -> 6 [] c = "7" -> 7
              [] c = "8" -> 8 [] c = "9" -> 9
              [] c \in {"a", "A"} -> 10 [] c \in {"b", "B"} -> 11
              [] c \in {"c", "C"} -> 12 [] c \in {"d", "D"} -> 13
              [] c \in {"e", "E"} -> 14 [] c \in {"f", "F"} -> 15
              [] OTHER -> 99
        \* the number the leading digits of the characters t stand for in
        \* the radix, after the digits that came to n
        RECURSIVE LeadingDigits(_, _, _)
        LeadingDigits(t, n, radix) ==
            IF t = <<>> \/ DigitOf(Head(t)) >= radix THEN n
            ELSE LeadingDigits(Tail(t), radix * n + DigitOf(Head(t)), radix)
        \* the white space and the line terminators a string can hold here:
        \* space, TAB, LF, CR, FF, VT, NBSP, U+FEFF and U+1680
        StrWhiteSpaceChar ==
            {" ", "\t", "\n", "\r", "\f", "", " ", "﻿", " "}
        \* the characters t without their leading white space
        RECURSIVE TrimStart(_)
        TrimStart(t) ==
            IF t # <<>> /\ Head(t) \in StrWhiteSpaceChar THEN TrimStart(Tail(t)) ELSE t
        trimmed == TrimStart(s)
        signed == trimmed # <<>> /\ Head(trimmed) \in {"+", "-"}
        unsigned == IF signed THEN Tail(trimmed) ELSE trimmed
        hex == /\ Len(unsigned) >= 2
               /\ unsigned[1] = "0"
               /\ unsigned[2] \in {"x", "X"}
        magnitude == IF hex THEN LeadingDigits(Tail(Tail(unsigned)), 0, 16)
                     ELSE LeadingDigits(unsigned, 0, 10)
    IN IF signed /\ Head(trimmed) = "-" THEN 0 - magnitude ELSE magnitude

\* parseInt(days) || 7 for the days parameter of the query, a sequence of
\* characters: NaN (no parameter, no leading digit) and 0 give 7
daysCount(query) ==
    IF ~Has(query, "days") THEN 7
    ELSE IF parseInt(query.days) = 0 THEN 7
    ELSE parseInt(query.days)

\* `gmail_${userId}`, `calendar_${userId}_${date || 'today'}` and
\* `fitness_${userId}_${daysCount}`: one string, the parts joined by "_"
cacheKey(req) ==
    IF req.source = "gmail" THEN "gmail_" \o req.query.userId
    ELSE IF req.source = "calendar"
    THEN "calendar_" \o req.query.userId \o "_"
             \o (IF Has(req.query, "date") /\ req.query.date # ""
                 THEN req.query.date ELSE "today")
    ELSE "fitness_" \o req.query.userId \o "_" \o ToString(daysCount(req.query))

\* a variant of getCachedData that still serves an entry whose age is
\* exactly CACHE_TTL
getCachedDataInclusive(key) ==
    IF key \in DOMAIN cache /\ now - cache[key].timestamp <= CACHE_TTL
    THEN cache[key].data
    ELSE Null

\* getCachedData(key)
getCachedData(key) ==
    IF key \in DOMAIN cache /\ now - cache[key].timestamp < CACHE_TTL
    THEN cache[key].data
    ELSE Null

\* the Map after setCacheData(key, data)
setCacheData(key, data) ==
    [k \in DOMAIN cache \cup {key} |->
        IF k = key THEN [data |-> data, timestamp |-> now] ELSE cache[k]]

\* a handler of req that awaits the answer of call, made with the
\* credentials c (Null for a call that carries none)
Awaiting(req, call, c) ==
    [request |-> req, await |-> call, with |-> c,
     used |-> IF c = Null THEN {} ELSE {c},
     messages |-> <<>>, i |-> 0, urgentCount |-> 0, unreadCount |-> 0]

\* the messages of the Gmail handler h once the call it awaits has
\* answered: messages.list answers the inbox of the account of its
\* credentials
Listed(h) ==
    IF h.await = "list" THEN upstream.messages[h.with.access_token]
    ELSE h.messages

\* the Gmail handler h once the call it awaits has answered: messages.get
\* answers the subject and the labels of a message that can be fetched
\* from the inbox of the account of its credentials; what it raises
\* otherwise is caught inside the loop and the message is not counted
Counted(h) ==
    IF /\ h.await = "get"
       /\ h.with = TokensOf(h.request.query.userId)
       /\ h.messages[h.i].readable
    THEN [h EXCEPT !.urgentCount = @ + (IF h.messages[h.i].keyword THEN 1 ELSE 0),
                   !.unreadCount = @ + (IF h.messages[h.i].unread THEN 1 ELSE 0)]
    ELSE h

\* the handler h has no further call to make once the call it awaits has
\* answered
Finished(h) ==
    \/ h.await \in {"events", "weather"}
    \/ /\ h.await \in {"list", "get"}
       /\ h.i = analyzedEmails(Len(Listed(h)))

\* the result object the handler h builds at time t from the answers of
\* its calls
FreshBody(h, t) ==
    CASE h.request.source = "gmail" ->
             stressLevelBody(h.request.query.userId, Len(Listed(h)),
                             Counted(h).urgentCount, Counted(h).unreadCount, t)
      [] h.request.source = "calendar" ->
             scheduleHealthBody(h.request.query,
                                upstream.events[h.with.access_token], t)
      [] h.request.source = "fitness" ->
             fitnessSummaryBody(h.request.query.userId, daysCount(h.request.query),
                                upstream.weather, upstream.random, t)

\* the reply to the request req as the proxy sent it
Reply(req, status, body) ==
    [request |-> req, status |-> status, body |-> body, at |-> now]

\* res.status(status).json(body) for the request req
Send(req, status, body) == reply' = Reply(req, status, body)

\* the proxy server starts; the frontend side is not looked at
InitProxy ==
    /\ ProxyStarted
    /\ now = 0
    /\ userData = EmptyObj
    /\ initialized = TRUE
    /\ outcome = "none"
    /\ insights = Undefined
    /\ result = Undefined
    /\ upstream = DefaultUpstream
    /\ PageOpened
    /\ ColdStart(Null)

\* the request GET /auth/callback?code=... with a code Google issued for
\* the account u
CallbackRequest(u) == [source |-> "callback", code |-> u, from |-> u]

\* GET /auth/callback arrives: the handler asks for the tokens of its code
AuthCallback(u) ==
    /\ InFlight < MaxInFlight
    /\ pending' = pending (+) SetToBag({Awaiting(CallbackRequest(u), "getToken", Null)})
    /\ UNCHANGED <<serverlessVars, userData, initialized, outcome, insights, result, now,
                   endpointVars, cache, userTokens, sessions, reply, oauth2Client,
                   pageVars>>

\* getToken has answered the callback handler h: the client is given the
\* tokens and the handler asks who the user is
TokenExchanged(h) ==
    /\ BagIn(h, pending)
    /\ h.await = "getToken"
    /\ oauth2Client' = TokensOf(h.request.code)
    /\ pending' = (pending (-) SetToBag({h}))
                      (+) SetToBag({Awaiting(h.request, "userinfo",
                                             TokensOf(h.request.code))})
    /\ UNCHANGED <<serverlessVars, userData, initialized, outcome, insights, result, now,
                   endpointVars, cache, userTokens, sessions, reply, pageVars>>

\* userinfo.get has answered the callback handler h with the address of
\* the account of its credentials: setUserTokens stores the tokens and
\* gives them to the client, the session is the user's, the browser is
\* redirected
UserIdentified(h) ==
    /\ BagIn(h, pending)
    /\ h.await = "userinfo"
    /\ LET userId == h.with.access_token
       IN /\ userTokens' = [v \in DOMAIN userTokens \cup {userId} |->
                               IF v = userId THEN TokensOf(h.request.code)
                               ELSE userTokens[v]]
          /\ sessions' = sessions \cup {userId}
    /\ oauth2Client' = TokensOf(h.request.code)
    /\ reply' = Reply(h.request, 302,
                      [location |-> "http://localhost:8081/?auth=success"])
    /\ pending' = pending (-) SetToBag({h})
    /\ UNCHANGED <<serverlessVars, userData, initialized, outcome, insights, result, now,
                   endpointVars, cache, pageVars>>

\* getToken or userinfo.get has failed the callback handler h: the catch
\* block redirects the browser
CallbackFails(h) ==
    /\ BagIn(h, pending)
    /\ h.await \in {"getToken", "userinfo"}
    /\ reply' = Reply(h.request, 302,
                      [location |-> "http://localhost:8081/?auth=error"])
    /\ pending' = pending (-) SetToBag({h})
    /\ UNCHANGED <<serverlessVars, userData, initialized, outcome, insights, result, now,
                   endpointVars, cache, userTokens, sessions, oauth2Client, pageVars>>

\* GET /auth/status from the browser b
AuthStatus(b) ==
    /\ reply' = Reply([source |-> "status", from |-> b], 200,
                      IF b \in sessions /\ Has(userTokens, b)
                      THEN [authenticated |-> TRUE, userId |-> b]
                      ELSE [authenticated |-> FALSE])
    /\ UNCHANGED <<serverlessVars, userData, initialized, outcome, insights, result, now,
                   endpointVars, cache, userTokens, sessions, pending,
                   oauth2Client, pageVars>>

\* GET /auth/logout from the browser b: the tokens of the user of its
\* session are deleted, the session is destroyed
AuthLogout(b) ==
    /\ userTokens' = IF b \in sessions
                     THEN [v \in DOMAIN userTokens \ {b} |-> userTokens[v]]
                     ELSE userTokens
    /\ sessions' = sessions \ {b}
    /\ reply' = Reply([source |-> "logout", from |-> b], 200, [success |-> TRUE])
    /\ UNCHANGED <<serverlessVars, userData, initialized, outcome, insights, result, now,
                   endpointVars, cache, pending, oauth2Client, pageVars>>

\* oauth2Client.generateAuthUrl({access_type, scope, prompt}): the consent
\* page of Google for the four scopes; of the URL the address and the
\* scopes are carried
authUrl ==
    "https://accounts.google.com/o/oauth2/v2/auth?scope="
    \o "https%3A%2F%2Fwww.googleapis.com%2Fauth%2Fgmail.readonly%20"
    \o "https%3A%2F%2Fwww.googleapis.com%2Fauth%2Fcalendar.readonly%20"
    \o "https%3A%2F%2Fwww.googleapis.com%2Fauth%2Fuserinfo.email%20"
    \o "https%3A%2F%2Fwww.googleapis.com%2Fauth%2Fuserinfo.profile"

\* GET /auth/google from the browser b: the browser is redirected to the
\* consent page
AuthGoogle(b) ==
    /\ reply' = Reply([source |-> "google", from |-> b], 302, [location |-> authUrl])
    /\ UNCHANGED <<serverlessVars, userData, initialized, outcome, insights, result, now,
                   endpointVars, cache, userTokens, sessions, pending,
                   oauth2Client, pageVars>>

\* GET /api/health from the browser b: the description of the server, the
\* time and the number of entries of the cache, expired ones included
Health(b) ==
    /\ reply' = Reply([source |-> "health", from |-> b], 200,
                      [status |-> "healthy",
                       server |-> "Life Navigator Personal Data Proxy (Real-Time)",
                       port |-> 3002,
                       dataSource |-> "External APIs (WorldTimeAPI, Open-Meteo)",
                       endpoints |-> <<"/api/gmail/stress-level",
                                       "/api/calendar/schedule-health",
                                       "/api/fitness/summary",
                                       "/api/health">>,
                       timestamp |-> now,
                       cache |-> [size |-> Cardinality(DOMAIN cache),
                                  ttl |-> ToString(CACHE_TTL * 60) \o " seconds"]])
    /\ UNCHANGED <<serverlessVars, userData, initialized, outcome, insights, result, now,
                   endpointVars, cache, userTokens, sessions, pending,
                   oauth2Client, pageVars>>

\* the handler of req that has just made its first upstream call: for a
\* Gmail or Calendar request with the credentials the client was just given
Started(req) ==
    CASE req.source = "gmail" -> Awaiting(req, "list", userTokens[req.query.userId])
      [] req.source = "calendar" -> Awaiting(req, "events", userTokens[req.query.userId])
      [] req.source = "fitness" -> Awaiting(req, "weather", Null)

\* a variant of Begin that looks into the cache before it looks for tokens
BeginCacheFirst(req) ==
    /\ IF ~Has(req.query, "userId") \/ req.query.userId = ""
       THEN /\ Send(req, 400, [error |-> "Missing user ID"])
            /\ UNCHANGED <<pending, oauth2Client>>
       ELSE IF getCachedData(cacheKey(req)) # Null
       THEN /\ Send(req, 200, getCachedData(cacheKey(req)))
            /\ UNCHANGED <<pending, oauth2Client>>
       ELSE IF req.source # "fitness" /\ ~Has(userTokens, req.query.userId)
       THEN /\ Send(req, 401, [error |-> "Not authenticated"])
            /\ UNCHANGED <<pending, oauth2Client>>
       ELSE /\ InFlight < MaxInFlight
            /\ pending' = pending (+) SetToBag({Started(req)})
            /\ oauth2Client' = IF req.source = "fitness" THEN oauth2Client
                               ELSE userTokens[req.query.userId]
            /\ UNCHANGED reply
    /\ UNCHANGED <<serverlessVars, userData, initialized, outcome, insights, result, now,
                   upstream, cache, userTokens, sessions, pageVars>>

\* a data request arrives: the handler runs up to its reply or, on a cache
\* miss, up to its first upstream call; the fitness handler asks for no
\* tokens and gives the client no credentials
Begin(req) ==
    /\ IF ~Has(req.query, "userId") \/ req.query.userId = ""
       THEN /\ Send(req, 400, [error |-> "Missing user ID"])
            /\ UNCHANGED <<pending, oauth2Client>>
       ELSE IF req.source # "fitness" /\ ~Has(userTokens, req.query.userId)
       THEN /\ Send(req, 401, [error |-> "Not authenticated"])
            /\ UNCHANGED <<pending, oauth2Client>>
       ELSE IF getCachedData(cacheKey(req)) # Null
       THEN /\ Send(req, 200, getCachedData(cacheKey(req)))
            /\ UNCHANGED <<pending, oauth2Client>>
       ELSE /\ InFlight < MaxInFlight
            /\ pending' = pending (+) SetToBag({Started(req)})
            /\ oauth2Client' = IF req.source = "fitness" THEN oauth2Client
                               ELSE userTokens[req.query.userId]
            /\ UNCHANGED reply
    /\ UNCHANGED <<serverlessVars, userData, initialized, outcome, insights, result, now,
                   upstream, cache, userTokens, sessions, pageVars>>

\* the call the Gmail handler h awaits has answered and a message is left
\* to look at: the handler makes the next messages.get call, with the
\* credentials the client holds by now
Call(h) ==
    /\ BagIn(h, pending)
    /\ h.await \in {"list", "get"}
    /\ ~Finished(h)
    /\ pending' = (pending (-) SetToBag({h}))
                      (+) SetToBag({[Counted(h) EXCEPT
                                        !.await = "get",
                                        !.with = oauth2Client,
                                        !.used = @ \cup {oauth2Client},
                                        !.messages = Listed(h),
                                        !.i = @ + 1]})
    /\ UNCHANGED <<serverlessVars, userData, initialized, outcome, insights, result, now,
                   endpointVars, cache, userTokens, sessions, reply,
                   oauth2Client, pageVars>>

\* the last call of the data handler h has answered: the result is built,
\* cached and sent
Complete(h) ==
    /\ BagIn(h, pending)
    /\ Finished(h)
    /\ LET body == FreshBody(h, now)
       IN /\ cache' = setCacheData(cacheKey(h.request), body)
          /\ Send(h.request, 200, body)
    /\ pending' = pending (-) SetToBag({h})
    /\ UNCHANGED <<serverlessVars, userData, initialized, outcome, insights, result, now,
                   upstream, userTokens, sessions, oauth2Client, pageVars>>

\* a variant of Fail that caches the error body it answers
FailCached(h) ==
    /\ BagIn(h, pending)
    /\ h.await \in {"list", "events", "weather"}
    /\ cache' = setCacheData(cacheKey(h.request), ErrorBody)
    /\ Send(h.request, 500, ErrorBody)
    /\ pending' = pending (-) SetToBag({h})
    /\ UNCHANGED <<serverlessVars, userData, initialized, outcome, insights, result, now,
                   upstream, userTokens, sessions, oauth2Client, pageVars>>

\* messages.list, events.list or the weather request of the handler h has
\* failed, or its answer lacks what the handler reads: the catch block
\* answers 500
Fail(h) ==
    /\ BagIn(h, pending)
    /\ h.await \in {"list", "events", "weather"}
    /\ Send(h.request, 500, ErrorBody)
    /\ pending' = pending (-) SetToBag({h})
    /\ UNCHANGED <<serverlessVars, userData, initialized, outcome, insights, result, now,
                   upstream, cache, userTokens, sessions, oauth2Client, pageVars>>

\* a minute passes; the proxy is watched until the time horizon
Elapse(horizon) ==
    /\ now < horizon
    /\ now' = now + 1
    /\ UNCHANGED <<serverlessVars, userData, initialized, outcome, insights, result,
                   endpointVars, proxyVars, pageVars>>

\* a step of the proxy: a request of one of its routes arrives, from one of
\* the browsers, with the code of one of the accounts or as one of the data
\* requests, or a suspended handler goes on, or time passes, up to horizon
ProxyStep(requests, accounts, browsers, horizon) ==
    \/ \E b \in browsers : AuthGoogle(b)
    \/ \E u \in accounts : AuthCallback(u)
    \/ \E h \in BagToSet(pending) : TokenExchanged(h)
    \/ \E h \in BagToSet(pending) : UserIdentified(h)
    \/ \E h \in BagToSet(pending) : CallbackFails(h)
    \/ \E b \in browsers : AuthStatus(b)
    \/ \E b \in browsers : AuthLogout(b)
    \/ \E req \in requests : Begin(req)
    \/ \E h \in BagToSet(pending) : Call(h)
    \/ \E h \in BagToSet(pending) : Complete(h)
    \/ \E h \in BagToSet(pending) : Fail(h)
    \/ \E b \in browsers : Health(b)
    \/ Elapse(horizon)

\* the data requests of one user and of a browser that never signs in, in
\* any interleaving, until an entry written at the start has reached the
\* age CACHE_TTL
NextProxy == ProxyStep(DataRequests, Users, Users, CACHE_TTL)

SpecProxy == InitProxy /\ [][NextProxy]_vars

\* two users of one proxy process: a Gmail request of the first and a
\* Calendar request of the second
ConcurrentRequests ==
    {[source |-> "gmail", query |-> [userId |-> "u1"], from |-> "u1"],
     [source |-> "calendar", query |-> [userId |-> "u2"], from |-> "u2"]}

NextProxyConcurrent == ProxyStep(ConcurrentRequests, Accounts, {"guest"}, CACHE_TTL)

SpecProxyConcurrent == InitProxy /\ [][NextProxyConcurrent]_vars

\* one request of each of the three data endpoints, one that asks for the
\* fitness summary of three days, and one without userId
SourceRequests ==
    {[source |-> "gmail", query |-> EmptyObj, from |-> "guest"],
     [source |-> "gmail", query |-> [userId |-> "u1"], from |-> "u1"],
     [source |-> "calendar", query |-> [userId |-> "u1"], from |-> "u1"],
     [source |-> "fitness", query |-> [userId |-> "u1", days |-> <<"3">>],
      from |-> "u1"]}

\* the requests of the three sources, from the browser of the user and from
\* a browser that never signs in
NextProxySources == ProxyStep(SourceRequests, Users, {"guest"}, CACHE_TTL)

SpecProxySources == InitProxy /\ [][NextProxySources]_vars

---------------------------------------------------------------------------
(* The data routes over their inputs: upstream answers one of the inputs,   *)
(* the requests reach the proxy directly, and a caller of the analyzer      *)
(* hands it a body the proxy has sent.                                      *)

\* the proxy has just started; upstream answers one of the inputs
InitSurfaced ==
    /\ upstream \in UpstreamInputs
    /\ userData = EmptyObj
    /\ initialized = TRUE
    /\ outcome = "none"
    /\ insights = Undefined
    /\ result = Undefined
    /\ now = 0
    /\ ProxyStarted
    /\ PageOpened
    /\ ColdStart(Null)

\* the requests of the user to the data routes whose upstream the input
\* describes
SurfacedRequests ==
    {[source |-> src, query |-> [userId |-> "u1"], from |-> "u1"] :
        src \in {x \in {"gmail", "calendar", "fitness"} :
                    CASE x = "gmail" -> Has(upstream, "messages")
                      [] x = "calendar" -> Has(upstream, "events")
                      [] x = "fitness" -> Has(upstream, "weather")}}

\* analyzeProductivityHealth({[key]: body}) for the body of the last reply,
\* a reply of status 200 of a data route, under the key of userData the
\* page keeps the body of the route under
AnalyzeReply ==
    /\ reply # Undefined
    /\ reply.status = 200
    /\ reply.request.source \in {"gmail", "calendar", "fitness"}
    /\ LET key == IF reply.request.source = "gmail" THEN "emails"
                  ELSE reply.request.source
           ud == key :> reply.body
       IN /\ userData' = ud
          /\ insights' = Insights(ud)
          /\ outcome' = IF analyzeProductivityHealthThrows(ud)
                        THEN "threw" ELSE "returned"
          /\ result' = IF analyzeProductivityHealthThrows(ud)
                       THEN Undefined
                       ELSE analyzeProductivityHealth(ud, now)
    /\ UNCHANGED <<serverlessVars, initialized, now, endpointVars, proxyVars, pageVars>>

\* the routes of the proxy while the clock advances up to MaxClock, and the
\* analyzer
NextSurfaced ==
    \/ ProxyStep(SurfacedRequests, Users, {"guest"}, MaxClock)
    \/ AnalyzeReply

SpecSurfaced == InitSurfaced /\ [][NextSurfaced]_vars

---------------------------------------------------------------------------
(* The load flow of the page (src/src/life-navigator.js).                   *)
(*                                                                          *)
(* A fetch promise is [state], "none" before the first load, then           *)
(* "pending", "rejected", or "fulfilled" with the parsed body.              *)

SourceKeys == {"emails", "calendar", "fitness"}

\* a response whose text is no JSON: response.json() rejects
Unparsable == [SyntaxError |-> TRUE]

\* the page is opened; the engine has analyzed nothing
InitPage ==
    /\ PageOpened
    /\ ProxyStarted
    /\ userData = EmptyObj
    /\ initialized = TRUE
    /\ outcome = "none"
    /\ insights = Undefined
    /\ result = Undefined
    /\ now = 0
    /\ upstream = Undefined
    /\ ColdStart(Null)

\* the button as the finally block of loadAllData leaves it
ReloadEnabled == [textContent |-> "Reload Data", disabled |-> FALSE]

\* loadAllData for the user userId, up to its await: without a user (null,
\* undefined or the empty string) it throws at once and runs its catch and
\* finally blocks
loadAllDataStarts(userId) ==
    IF ~Truthy(userId) \/ userId = [userId |-> ""]
    THEN /\ errorShown' = TRUE
         /\ loadBtn' = ReloadEnabled
         /\ UNCHANGED <<loading, fetches>>
    ELSE /\ loadBtn' = [textContent |-> "Loading...", disabled |-> TRUE]
         /\ loading' = TRUE
         /\ fetches' = [k \in SourceKeys |-> [state |-> "pending"]]
         /\ UNCHANGED errorShown

\* checkAuthStatus resumes with the outcome of its status request; auth
\* is the auth parameter of the page URL ("none" when it has none).
\* currentUser, which the code sets to null, to undefined or to the string
\* data.userId, is Null, Undefined or the record [userId |-> string]
CheckAuthStatus(answer, auth) ==
    /\ authCheck.state = "pending"
    /\ authCheck' = answer
    /\ IF answer.state = "failed"
       THEN /\ shown' = "login-prompt"
            /\ UNCHANGED <<currentUser, loadBtn, loading, fetches, errorShown>>
       ELSE LET \* data.userId
                user == IF Has(answer.data, "userId")
                        THEN [userId |-> answer.data.userId] ELSE Undefined
            IN IF auth = "success"
               THEN /\ currentUser' = user
                    /\ shown' = "dashboard-content"
                    /\ loadAllDataStarts(user)
               ELSE /\ currentUser' = IF answer.data.authenticated
                                      THEN user ELSE currentUser
                    /\ shown' = IF answer.data.authenticated
                                THEN "dashboard-content" ELSE "login-prompt"
                    /\ UNCHANGED <<loadBtn, loading, fetches, errorShown>>
    /\ UNCHANGED <<serverlessVars, userData, initialized, outcome, insights, result, now,
                   endpointVars, proxyVars, cards>>

\* logout resumes after its request: when the fetch resolved nobody is
\* signed in and the login prompt is shown, when it rejected nothing changes
Logout(resolved) ==
    /\ IF resolved
       THEN /\ currentUser' = Null
            /\ shown' = "login-prompt"
       ELSE UNCHANGED <<currentUser, shown>>
    /\ UNCHANGED <<serverlessVars, userData, initialized, outcome, insights, result, now,
                   endpointVars, proxyVars, loadBtn, loading, fetches, cards,
                   errorShown, authCheck>>

\* a click on the load button, which a disabled button does not take
LoadAllData ==
    /\ ~loadBtn.disabled
    /\ ~loading
    /\ loadAllDataStarts(currentUser)
    /\ UNCHANGED <<serverlessVars, userData, initialized, outcome, insights, result, now,
                   endpointVars, proxyVars, currentUser, cards, shown, authCheck>>

\* one of the three fetches settles: the network fails, the answer is no
\* JSON, the endpoint answers an error body (400, 401, 500), or it answers
\* the body of status 200 for the data of the user (five of ten messages
\* urgent and two unread, one tentative meeting from 10:00 to 15:00, mild
\* weather)
Settle(k) ==
    LET GoodBody ==
            CASE k = "emails" -> stressLevelBody("u1", 10, 5, 2, 0)
              [] k = "calendar" ->
                     scheduleHealthBody(
                         [userId |-> "u1"],
                         <<[start |-> 600, end |-> 900,
                            attendees |-> <<Attendee(TRUE, FALSE, "tentative")>>]>>,
                         0)
              [] k = "fitness" ->
                     fitnessSummaryBody("u1", 7, DefaultUpstream.weather,
                                        DefaultUpstream.random, 0)
        FetchOutcomes ==
            {[state |-> "rejected"],
             [state |-> "fulfilled", body |-> Unparsable],
             [state |-> "fulfilled", body |-> ErrorBody],
             [state |-> "fulfilled", body |-> GoodBody]}
    IN /\ fetches[k].state = "pending"
       /\ \E settled \in FetchOutcomes : fetches' = [fetches EXCEPT ![k] = settled]
    /\ UNCHANGED <<serverlessVars, userData, initialized, outcome, insights, result, now,
                   endpointVars, proxyVars, currentUser, loadBtn, loading, cards,
                   errorShown, shown, authCheck>>

\* a variant of LoadAllDataRejected without the finally block
LoadAllDataRejectedNoFinally ==
    /\ loading
    /\ \E k \in SourceKeys : fetches[k].state = "rejected"
    /\ errorShown' = TRUE
    /\ loading' = FALSE
    /\ UNCHANGED <<serverlessVars, userData, initialized, outcome, insights, result, now,
                   endpointVars, proxyVars, currentUser, loadBtn, fetches, cards,
                   shown, authCheck>>

\* Promise.all rejects with the first rejected fetch: catch and finally
LoadAllDataRejected ==
    /\ loading
    /\ \E k \in SourceKeys : fetches[k].state = "rejected"
    /\ errorShown' = TRUE
    /\ loadBtn' = ReloadEnabled
    /\ loading' = FALSE
    /\ UNCHANGED <<serverlessVars, userData, initialized, outcome, insights, result, now,
                   endpointVars, proxyVars, currentUser, fetches, cards, shown,
                   authCheck>>

\* Promise.all resolves: the bodies are parsed and become userData,
\* displayInsightCards and analyzeAndDisplayHealth run; what they raise
\* goes to the catch block; the finally block restores the button.
\* displayInsightCards fills the cards of emails, calendar and fitness in
\* this order and raises a TypeError on the card of a body that lacks
\* interpretation or data, which it reads fields of
LoadAllDataResumes ==
    /\ loading
    /\ \A k \in SourceKeys : fetches[k].state = "fulfilled"
    /\ IF \E k \in SourceKeys : fetches[k].body = Unparsable
       THEN /\ errorShown' = TRUE
            /\ UNCHANGED <<userData, cards, insights, outcome, result>>
       ELSE LET ud == [k \in SourceKeys |-> fetches[k].body]
                CardThrows(body) == ~Has(body, "interpretation") \/ ~Has(body, "data")
                CardsFilled ==
                    IF CardThrows(ud.emails) THEN {}
                    ELSE IF CardThrows(ud.calendar) THEN {"emails"}
                    ELSE IF CardThrows(ud.fitness) THEN {"emails", "calendar"}
                    ELSE {"emails", "calendar", "fitness"}
            IN /\ userData' = ud
               /\ cards' = cards \cup CardsFilled
               /\ IF \E k \in SourceKeys : CardThrows(ud[k])
                  THEN /\ errorShown' = TRUE
                       /\ UNCHANGED <<insights, outcome, result>>
                  ELSE /\ insights' = Insights(ud)
                       /\ outcome' = IF analyzeProductivityHealthThrows(ud)
                                     THEN "threw" ELSE "returned"
                       /\ result' = IF analyzeProductivityHealthThrows(ud)
                                    THEN Undefined
                                    ELSE analyzeProductivityHealth(ud, now)
                       /\ errorShown' = analyzeProductivityHealthThrows(ud)
    /\ loadBtn' = ReloadEnabled
    /\ loading' = FALSE
    /\ UNCHANGED <<serverlessVars, initialized, now, endpointVars, proxyVars, currentUser,
                   fetches, shown, authCheck>>

\* the status request of checkAuthStatus fails (the fetch or
\* response.json()) or it is answered, with the id of a user or an empty one
NextPage ==
    \/ \E answer \in {[state |-> "failed"],
                       [state |-> "answered", data |-> [authenticated |-> FALSE]]}
                      \cup {[state |-> "answered",
                             data |-> [authenticated |-> TRUE, userId |-> u]] :
                               u \in Users \cup {""}},
          auth \in {"none", "success", "error"} :
           CheckAuthStatus(answer, auth)
    \/ \E resolved \in BOOLEAN : Logout(resolved)
    \/ LoadAllData
    \/ \E k \in SourceKeys : Settle(k)
    \/ LoadAllDataRejected
    \/ LoadAllDataResumes

SpecPage == InitPage /\ [][NextPage]_vars

\* the event loop runs a continuation that is ready
FairSpecPage ==
    /\ SpecPage
    /\ WF_vars(LoadAllDataRejected)
    /\ WF_vars(LoadAllDataResumes)

---------------------------------------------------------------------------
(* The serverless functions and their token store (src/api).                *)
(*                                                                          *)
(* redis is null when the environment does not configure the store;         *)
(* otherwise it maps a user id to the tokens stored under                   *)
(* `user_tokens:${userId}`.  A promise is a record with the field promise;  *)
(* no function awaits one.  An invocation runs from its start to its        *)
(* first await and from each await to the next in one step; the suspended   *)
(* invocations are records like the suspended handlers of the proxy, their  *)
(* request being [endpoint, query].  What the Google client does with a     *)
(* promise for credentials is not in the source: its calls fail, or they    *)
(* answer with the data of the user of the request.                         *)

\* getUserTokens(userId) up to its return or its await: an async function,
\* so what its caller gets is a promise, fulfilled with null when the store
\* is missing and otherwise pending on the redis.get of the key of the user,
\* which answers after the caller has gone on
getUserTokens(userId) ==
    IF redis = Null THEN [promise |-> "fulfilled", value |-> Null]
    ELSE [promise |-> "pending", get |-> "user_tokens:" \o userId]

\* redis after redis.set(`user_tokens:${userId}`, tokens) of setUserTokens,
\* which returns normally whether the store is missing, the write throws
\* or the write succeeds
setUserTokens(userId, tokens, writeFails) ==
    IF redis = Null \/ writeFails THEN redis
    ELSE [u \in DOMAIN redis \cup {userId} |->
             IF u = userId THEN tokens ELSE redis[u]]

\* res.status(200).end() of a preflight request
Preflight(endpoint) == [endpoint |-> endpoint, status |-> 200, ended |-> TRUE]

\* api/auth/google.js: the browser is redirected to the consent page; what
\* generateAuthUrl raises (fails) is answered with status 500 (of the body
\* the error is carried)
ApiAuthGoogle(method, fails) ==
    /\ res' = IF method = "OPTIONS" THEN Preflight("google")
              ELSE IF fails
              THEN [endpoint |-> "google", status |-> 500,
                    body |-> [error |-> "OAuth initiation failed"]]
              ELSE [endpoint |-> "google", status |-> 302, location |-> authUrl]
    /\ UNCHANGED <<userData, initialized, outcome, insights, result, now,
                   endpointVars, proxyVars, pageVars, redis, credentials,
                   invocations>>

\* api/auth/status.js as src/api/auth holds it: the userId cookie is tested for truthiness, which
\* a missing and an empty cookie lack, and then what getUserTokens returns
ApiAuthStatus(method, cookies) ==
    /\ res' = IF method = "OPTIONS" THEN Preflight("status")
              ELSE [endpoint |-> "status", cookies |-> cookies, status |-> 200,
                    body |-> IF /\ Has(cookies, "userId")
                                /\ cookies.userId # ""
                                /\ Truthy(getUserTokens(cookies.userId))
                             THEN [authenticated |-> TRUE, userId |-> cookies.userId]
                             ELSE [authenticated |-> FALSE]]
    /\ UNCHANGED <<userData, initialized, outcome, insights, result, now,
                   endpointVars, proxyVars, pageVars, redis, credentials,
                   invocations>>

\* the other version of api/auth/status.js the source holds, up to its
\* response or its await: it awaits what getUserTokens returns
ApiAuthStatusAwaits(method, cookies) ==
    /\ IF method = "OPTIONS"
       THEN /\ res' = Preflight("status")
            /\ UNCHANGED invocations
       ELSE IF ~Has(cookies, "userId") \/ cookies.userId = ""
       THEN /\ res' = [endpoint |-> "status", cookies |-> cookies, status |-> 200,
                       body |-> [authenticated |-> FALSE]]
            /\ UNCHANGED invocations
       ELSE /\ BagCardinality(invocations) < MaxInFlight
            /\ invocations' = invocations (+) SetToBag({
                   Awaiting([endpoint |-> "status", cookies |-> cookies],
                            "tokens", getUserTokens(cookies.userId))})
            /\ UNCHANGED res
    /\ UNCHANGED <<userData, initialized, outcome, insights, result, now,
                   endpointVars, proxyVars, pageVars, redis, credentials>>

\* the promise the status invocation h awaits is fulfilled: with null when
\* the store is missing, when redis.get has thrown (readFails) and when it
\* has found no entry, and otherwise with the tokens it has found
ApiTokensRead(h, readFails) ==
    /\ BagIn(h, invocations)
    /\ h.await = "tokens"
    /\ LET userId == h.request.cookies.userId
           tokens == IF h.with.promise = "fulfilled" THEN h.with.value
                     ELSE IF readFails \/ ~Has(redis, userId) THEN Null
                     ELSE redis[userId]
       IN res' = [endpoint |-> "status", cookies |-> h.request.cookies,
                  status |-> 200,
                  body |-> IF tokens # Null
                           THEN [authenticated |-> TRUE, userId |-> userId]
                           ELSE [authenticated |-> FALSE]]
    /\ invocations' = invocations (-) SetToBag({h})
    /\ UNCHANGED <<userData, initialized, outcome, insights, result, now,
                   endpointVars, proxyVars, pageVars, redis, credentials>>

\* res.status(status).json(body) of a data function
ApiReply(req, status, body) ==
    [endpoint |-> req.endpoint, query |-> req.query, status |-> status,
     body |-> body]

\* api/gmail/stress-level.js and api/calendar/schedule-health.js up to
\* their response or their first await: kind is "emails" or "calendar"
ApiData(kind, method, query) ==
    /\ IF method = "OPTIONS"
       THEN /\ res' = Preflight(kind)
            /\ UNCHANGED <<credentials, invocations>>
       ELSE IF ~Has(query, "userId") \/ query.userId = ""
       THEN /\ res' = ApiReply([endpoint |-> kind, query |-> query], 400,
                               [error |-> "Missing user ID"])
            /\ UNCHANGED <<credentials, invocations>>
       ELSE LET tokens == getUserTokens(query.userId)
            IN IF ~Truthy(tokens)
               THEN /\ res' = ApiReply([endpoint |-> kind, query |-> query], 401,
                                       [error |-> "Not authenticated"])
                    /\ UNCHANGED <<credentials, invocations>>
               ELSE /\ BagCardinality(invocations) < MaxInFlight
                    /\ credentials' = tokens
                    /\ invocations' = invocations (+) SetToBag({
                           Awaiting([endpoint |-> kind, query |-> query],
                                    IF kind = "emails" THEN "list" ELSE "events",
                                    tokens)})
                    /\ UNCHANGED res
    /\ UNCHANGED <<userData, initialized, outcome, insights, result, now,
                   endpointVars, proxyVars, pageVars, redis>>

\* the messages of the Gmail invocation h once the call it awaits has
\* answered
ApiListed(h) ==
    IF h.await = "list" THEN upstream.messages[h.request.query.userId]
    ELSE h.messages

\* the Gmail invocation h once the call it awaits has answered.
\* messages.get answers with a message that can be fetched when the
\* credentials are the tokens of the user of the request, or when they are
\* a promise and the client works with it (works); a message that is not
\* fetched falls into the inner catch and is not counted
ApiCounted(h, works) ==
    IF /\ h.await = "get"
       /\ h.messages[h.i].readable
       /\ IF "promise" \in DOMAIN h.with THEN works
          ELSE h.with = TokensOf(h.request.query.userId)
    THEN [h EXCEPT !.urgentCount = @ + (IF h.messages[h.i].keyword THEN 1 ELSE 0),
                   !.unreadCount = @ + (IF h.messages[h.i].unread THEN 1 ELSE 0)]
    ELSE h

\* the invocation h has no further call to make
ApiFinished(h) ==
    \/ h.await = "events"
    \/ /\ h.await \in {"list", "get"}
       /\ h.i = analyzedEmails(Len(ApiListed(h)))

\* the result object the invocation h builds at time t
ApiBody(h, works, t) ==
    IF h.request.endpoint = "emails"
    THEN stressLevelBody(h.request.query.userId, Len(ApiListed(h)),
                         ApiCounted(h, works).urgentCount,
                         ApiCounted(h, works).unreadCount, t)
    ELSE scheduleHealthBody(h.request.query,
                            upstream.events[h.request.query.userId], t)

\* the Gmail invocation h resumes in its loop and makes the next
\* messages.get call, with the credentials the client holds by now
ApiCall(h, works) ==
    /\ BagIn(h, invocations)
    /\ h.await \in {"list", "get"}
    /\ ~ApiFinished(h)
    /\ invocations' = (invocations (-) SetToBag({h}))
                          (+) SetToBag({[ApiCounted(h, works) EXCEPT
                                            !.await = "get",
                                            !.with = credentials,
                                            !.used = @ \cup {credentials},
                                            !.messages = ApiListed(h),
                                            !.i = @ + 1]})
    /\ UNCHANGED <<userData, initialized, outcome, insights, result, now,
                   endpointVars, proxyVars, pageVars, redis, credentials, res>>

\* the last call of the data invocation h has answered: the result is sent
ApiComplete(h, works) ==
    /\ BagIn(h, invocations)
    /\ h.await \in {"list", "get", "events"}
    /\ ApiFinished(h)
    /\ LET body == ApiBody(h, works, now)
       IN res' = ApiReply(h.request, 200, body)
    /\ invocations' = invocations (-) SetToBag({h})
    /\ UNCHANGED <<userData, initialized, outcome, insights, result, now,
                   endpointVars, proxyVars, pageVars, redis, credentials>>

\* messages.list or events.list of the invocation h has failed: the catch
\* block answers 500
ApiFail(h) ==
    /\ BagIn(h, invocations)
    /\ h.await \in {"list", "events"}
    /\ res' = ApiReply(h.request, 500, ErrorBody)
    /\ invocations' = invocations (-) SetToBag({h})
    /\ UNCHANGED <<userData, initialized, outcome, insights, result, now,
                   endpointVars, proxyVars, pageVars, redis, credentials>>

\* the redirect of the callback, with the cookie it sets if it sets one
Redirect(auth, cookie) ==
    [endpoint |-> "callback", status |-> 302, location |-> auth,
     setCookie |-> cookie]

\* api/auth/callback.js up to its response or its first await: query holds
\* the code Google issued for an account, an empty code, or none
ApiAuthCallback(method, query) ==
    /\ IF method = "OPTIONS"
       THEN /\ res' = Preflight("callback")
            /\ UNCHANGED invocations
       ELSE IF ~Has(query, "code") \/ query.code = ""
       THEN /\ res' = Redirect("/?auth=error", EmptyObj)
            /\ UNCHANGED invocations
       ELSE /\ BagCardinality(invocations) < MaxInFlight
            /\ invocations' = invocations (+) SetToBag({
                   Awaiting([endpoint |-> "callback", query |-> query],
                            "getToken", Null)})
            /\ UNCHANGED res
    /\ UNCHANGED <<userData, initialized, outcome, insights, result, now,
                   endpointVars, proxyVars, pageVars, redis, credentials>>

\* getToken has answered the callback invocation h: the client is given
\* the tokens and the invocation asks who the user is
ApiTokenExchanged(h) ==
    /\ BagIn(h, invocations)
    /\ h.await = "getToken"
    /\ credentials' = TokensOf(h.request.query.code)
    /\ invocations' = (invocations (-) SetToBag({h}))
                          (+) SetToBag({Awaiting(h.request, "userinfo",
                                                 TokensOf(h.request.query.code))})
    /\ UNCHANGED <<userData, initialized, outcome, insights, result, now,
                   endpointVars, proxyVars, pageVars, redis, res>>

\* userinfo.get has answered the callback invocation h: setUserTokens
\* returns at once when the store is missing, and the cookie and the
\* redirect follow; otherwise it awaits redis.set
ApiUserIdentified(h) ==
    /\ BagIn(h, invocations)
    /\ h.await = "userinfo"
    /\ IF redis = Null
       THEN /\ res' = Redirect("/?auth=success", [userId |-> h.with.access_token])
            /\ invocations' = invocations (-) SetToBag({h})
       ELSE /\ invocations' = (invocations (-) SetToBag({h}))
                                  (+) SetToBag({[h EXCEPT !.await = "set"]})
            /\ UNCHANGED res
    /\ UNCHANGED <<userData, initialized, outcome, insights, result, now,
                   endpointVars, proxyVars, pageVars, redis, credentials>>

\* redis.set of the callback invocation h has answered, or has thrown into
\* the catch block of setUserTokens (writeFails): after a write the client
\* is given the tokens; the cookie and the redirect follow either way
ApiTokensStored(h, writeFails) ==
    /\ BagIn(h, invocations)
    /\ h.await = "set"
    /\ LET userId == h.with.access_token
           tokens == TokensOf(h.request.query.code)
       IN /\ redis' = setUserTokens(userId, tokens, writeFails)
          /\ credentials' = IF writeFails THEN credentials ELSE tokens
          /\ res' = Redirect("/?auth=success", [userId |-> userId])
    /\ invocations' = invocations (-) SetToBag({h})
    /\ UNCHANGED <<userData, initialized, outcome, insights, result, now,
                   endpointVars, proxyVars, pageVars>>

\* getToken or userinfo.get has failed the callback invocation h
ApiCallbackFails(h) ==
    /\ BagIn(h, invocations)
    /\ h.await \in {"getToken", "userinfo"}
    /\ res' = Redirect("/?auth=error", EmptyObj)
    /\ invocations' = invocations (-) SetToBag({h})
    /\ UNCHANGED <<userData, initialized, outcome, insights, result, now,
                   endpointVars, proxyVars, pageVars, redis, credentials>>

\* the 24 hours of a stored entry are over: { ex: 86400 }
Expire(u) ==
    /\ redis # Null
    /\ Has(redis, u)
    /\ redis' = [v \in DOMAIN redis \ {u} |-> redis[v]]
    /\ UNCHANGED <<userData, initialized, outcome, insights, result, now,
                   endpointVars, proxyVars, pageVars, credentials, res, invocations>>

\* the deployment, with or without the store configured
InitServerless ==
    /\ \E store \in {Null, EmptyObj} : ColdStart(store)
    /\ ProxyStarted
    /\ PageOpened
    /\ userData = EmptyObj
    /\ initialized = TRUE
    /\ outcome = "none"
    /\ insights = Undefined
    /\ result = Undefined
    /\ now = 0
    /\ upstream = DefaultUpstream

\* the requests carry no value, an empty one, or the one of a user
NextServerless ==
    \/ \E method \in {"GET", "OPTIONS"}, fails \in BOOLEAN : ApiAuthGoogle(method, fails)
    \/ \E method \in {"GET", "OPTIONS"},
          cookies \in {EmptyObj} \cup {[userId |-> u] : u \in Users \cup {""}} :
           ApiAuthStatus(method, cookies)
    \/ \E method \in {"GET", "OPTIONS"},
          cookies \in {EmptyObj} \cup {[userId |-> u] : u \in Users \cup {""}} :
           ApiAuthStatusAwaits(method, cookies)
    \/ \E h \in BagToSet(invocations), readFails \in BOOLEAN : ApiTokensRead(h, readFails)
    \/ \E kind \in {"emails", "calendar"}, method \in {"GET", "OPTIONS"},
          query \in {EmptyObj} \cup {[userId |-> u] : u \in Users \cup {""}} :
           ApiData(kind, method, query)
    \/ \E h \in BagToSet(invocations), works \in BOOLEAN : ApiCall(h, works)
    \/ \E h \in BagToSet(invocations), works \in BOOLEAN : ApiComplete(h, works)
    \/ \E h \in BagToSet(invocations) : ApiFail(h)
    \/ \E method \in {"GET", "OPTIONS"},
          query \in {EmptyObj} \cup {[code |-> u] : u \in Users \cup {""}} :
           ApiAuthCallback(method, query)
    \/ \E h \in BagToSet(invocations) : ApiTokenExchanged(h)
    \/ \E h \in BagToSet(invocations) : ApiUserIdentified(h)
    \/ \E h \in BagToSet(invocations), writeFails \in BOOLEAN :
           ApiTokensStored(h, writeFails)
    \/ \E h \in BagToSet(invocations) : ApiCallbackFails(h)
    \/ \E u \in Users : Expire(u)

SpecServerless == InitServerless /\ [][NextServerless]_vars

---------------------------------------------------------------------------
(* Vocabulary of the properties *)

Returned == outcome = "returned"

Present(k) == Has(userData, k)

\* the payload of a present source, where it has one
HasPayload(k) == Present(k) /\ Has(userData[k], "data")
Payload(k) == userData[k].data

\* a property of a payload, zero where the payload does not have it
Field(o, f) == IF f \in DOMAIN o THEN o[f] ELSE 0

RECURSIVE SumImpacts(_)
SumImpacts(adj) ==
    IF adj = <<>> THEN 0 ELSE Head(adj).impact + SumImpacts(Tail(adj))

\* the impacts recorded for a category in a list of adjustments
ImpactsOf(adj, cat) == {adj[i].impact : i \in {j \in DOMAIN adj : adj[j].category = cat}}

\* the positions of a recommendation in a list
Positions(recs, r) == {i \in DOMAIN recs : recs[i] = r}

---------------------------------------------------------------------------
(* Properties of the scoring engine *)

\* C1: whatever sources and field values the input holds, the composite
\* score the analyzer returns lies in [0,100]
C1_ScoreInRange == Returned => result.score \in 0..100

\* C1 witness: an evaluation whose unclamped sum is below 0 returned 0
C1_Witness == Returned /\ 50 + SumImpacts(result.insights.adjustments) < 0
                       /\ result.score = 0

\* C2: the composite score is clamp(50 + sum of the deltas of the present
\* sources, 0, 100), the clamp applied once to the whole sum
C2_ScoreIsClampedSum ==
    Returned =>
        LET sum == 50 + SumImpacts(result.insights.adjustments)
        IN /\ result.score = (IF sum < 0 THEN 0 ELSE IF sum > 100 THEN 100 ELSE sum)
           /\ Len(result.insights.adjustments)
                  = Cardinality({k \in {"emails", "calendar", "fitness"} : Present(k)})

\* C2 witness: the first two sources bring the running sum below 0 and the
\* third brings it back above 0, where a clamp between sources would show
C2_Witness ==
    /\ Returned
    /\ Len(result.insights.adjustments) = 3
    /\ 50 + result.insights.adjustments[1].impact
          + result.insights.adjustments[2].impact < 0
    /\ result.insights.adjustments[3].impact > 0
    /\ result.score = 50 + SumImpacts(result.insights.adjustments)

\* C3: with no source present the analyzer returns score 50, the Fair label,
\* no recommendation and no adjustment
C3_NoSources ==
    (Returned /\ DOMAIN userData = {}) =>
        /\ result.score = 50
        /\ result.status = "Fair - Needs Attention"
        /\ result.recommendations = <<>>
        /\ result.insights.adjustments = <<>>

\* C3 witness: an evaluation of the empty input has returned
C3_Witness == Returned /\ DOMAIN userData = {}

\* C4: the analyzer never throws: every evaluation, also of a source that
\* is present without its data payload, ends with a complete result
C4_NeverThrows ==
    /\ outcome # "threw"
    /\ Returned =>
           {"score", "status", "insights", "recommendations"} \subseteq DOMAIN result

\* the EMAIL delta the banding table gives for magnitude m (thousandths)
\* and urgentCount u
EmailDelta(m, u) ==
    (CASE m < 300 -> 20
       [] m >= 300 /\ m < 500 -> 10
       [] m >= 500 /\ m < 700 -> -10
       [] m >= 700 -> -25)
    + (IF u > 3 THEN -10 ELSE 0)

\* the delta recorded for EMAIL by the last evaluation
EmailImpacts == ImpactsOf(insights.adjustments, "Email Stress")

\* C5 as stated: every present EMAIL source, a source without a data
\* payload counting as magnitude 0, gets the delta of the banding table
C5_EmailDeltaOfEveryPresentSource ==
    (outcome # "none" /\ Present("emails")) =>
        EmailImpacts =
            {IF HasPayload("emails")
             THEN EmailDelta(Field(Payload("emails"), "stressLevel"),
                             Field(Payload("emails"), "urgentCount"))
             ELSE EmailDelta(0, 0)}

\* C5 amended: a present EMAIL source that carries a data payload gets
\* +20 below 0.3, +10 from 0.3 to below 0.5, -10 from 0.5 to below 0.7,
\* -25 from 0.7, and -10 more exactly when urgentCount > 3; a present EMAIL
\* source without a data payload gets the delta 0
C5_EmailDelta ==
    (outcome # "none" /\ Present("emails")) =>
        /\ EmailImpacts =
               {IF HasPayload("emails")
                THEN EmailDelta(Field(Payload("emails"), "stressLevel"),
                                Field(Payload("emails"), "urgentCount"))
                ELSE 0}
        /\ Returned => ImpactsOf(result.insights.adjustments, "Email Stress")
                           = EmailImpacts

\* C5 witness: magnitude exactly 0.3 with more than 3 urgent mails was
\* scored +10 - 10 = 0
C5_Witness ==
    /\ Returned /\ HasPayload("emails")
    /\ Field(Payload("emails"), "stressLevel") = 300
    /\ Field(Payload("emails"), "urgentCount") > 3
    /\ EmailImpacts = {0}

\* the CALENDAR delta the banding table gives for density d (thousandths)
\* and focusTimeHours f (tenths of an hour)
CalendarDelta(d, f) ==
    (CASE d < 400 -> 20
       [] d >= 400 /\ d < 600 -> 5
       [] d >= 600 /\ d < 800 -> -15
       [] d >= 800 -> -30)
    + (IF f >= 30 THEN 10 ELSE 0)

CalendarImpacts == ImpactsOf(insights.adjustments, "Schedule Health")

\* C6 as stated: every present CALENDAR source, a source without a data
\* payload counting as density 0, gets the delta of the banding table
C6_CalendarDeltaOfEveryPresentSource ==
    (outcome # "none" /\ Present("calendar")) =>
        CalendarImpacts =
            {IF HasPayload("calendar")
             THEN CalendarDelta(Field(Payload("calendar"), "meetingDensity"),
                                Field(Payload("calendar"), "focusTimeHours"))
             ELSE CalendarDelta(0, 0)}

\* C6 amended: a present CALENDAR source that carries a data payload gets
\* +20 below 0.4, +5 from 0.4 to below 0.6, -15 from 0.6 to below 0.8, -30
\* from 0.8, and +10 more exactly when focusTimeHours >= 3; a present
\* CALENDAR source without a data payload gets the delta 0
C6_CalendarDelta ==
    (outcome # "none" /\ Present("calendar")) =>
        /\ CalendarImpacts =
               {IF HasPayload("calendar")
                THEN CalendarDelta(Field(Payload("calendar"), "meetingDensity"),
                                   Field(Payload("calendar"), "focusTimeHours"))
                ELSE 0}
        /\ Returned => ImpactsOf(result.insights.adjustments, "Schedule Health")
                           = CalendarImpacts

\* C6 witness: density exactly 0.4 with exactly 3 focus hours was scored
\* +5 + 10 = 15
C6_Witness ==
    /\ Returned /\ HasPayload("calendar")
    /\ Field(Payload("calendar"), "meetingDensity") = 400
    /\ Field(Payload("calendar"), "focusTimeHours") = 30
    /\ CalendarImpacts = {15}

\* the four ACTIVITY sub-adjustments: sleep duration h (tenths of an hour),
\* sleep quality q and stress s (thousandths), steps n
SleepDelta(h) ==
    CASE h >= 70 /\ h <= 90 -> 20
      [] (h >= 60 /\ h < 70) \/ h > 90 -> 5
      [] h < 60 -> -20
QualityDelta(q) == IF q > 700 THEN 10 ELSE IF q < 500 THEN -10 ELSE 0
StepsDelta(n) == IF n >= 8000 THEN 10 ELSE IF n < 3000 THEN -10 ELSE 0
StressDelta(st) == IF st > 700 THEN -15 ELSE 0

ActivityDelta(o) ==
    SleepDelta(Field(o, "sleepDuration")) + QualityDelta(Field(o, "sleepQuality"))
    + StepsDelta(Field(o, "dailySteps")) + StressDelta(Field(o, "stressLevel"))

ActivityImpacts == ImpactsOf(insights.adjustments, "Sleep & Activity")

\* C7 as stated: every present ACTIVITY source, a source without a data
\* payload counting as all-zero metrics, gets the sum of the four
\* sub-adjustments
C7_ActivityDeltaOfEveryPresentSource ==
    (outcome # "none" /\ Present("fitness")) =>
        ActivityImpacts =
            {IF HasPayload("fitness")
             THEN ActivityDelta(Payload("fitness"))
             ELSE ActivityDelta(EmptyObj)}

\* C7 amended: a present ACTIVITY source that carries a data payload gets
\* one delta, the sum of the sleep duration, sleep quality, steps and
\* stress sub-adjustments; a present ACTIVITY source without a data
\* payload gets the delta 0; either way the delta lies in [-55, +40]
C7_ActivityDelta ==
    (outcome # "none" /\ Present("fitness")) =>
        /\ ActivityImpacts =
               {IF HasPayload("fitness")
                THEN ActivityDelta(Payload("fitness"))
                ELSE 0}
        /\ ActivityImpacts \subseteq -55..40
        /\ Returned => ImpactsOf(result.insights.adjustments, "Sleep & Activity")
                           = ActivityImpacts

\* C7 witness: more than 9 hours of sleep, good quality, many steps and
\* high stress were scored +5 + 10 + 10 - 15 = 10
C7_Witness ==
    /\ Returned /\ HasPayload("fitness")
    /\ Field(Payload("fitness"), "sleepDuration") > 90
    /\ Field(Payload("fitness"), "sleepQuality") > 700
    /\ Field(Payload("fitness"), "dailySteps") >= 8000
    /\ Field(Payload("fitness"), "stressLevel") > 700
    /\ ActivityImpacts = {10}

\* the label of a score band
Label(score) ==
    CASE score >= 80 -> "Excellent - Thriving"
      [] score >= 60 /\ score <= 79 -> "Good - Sustainable"
      [] score >= 40 /\ score <= 59 -> "Fair - Needs Attention"
      [] score >= 20 /\ score <= 39 -> "Poor - Action Required"
      [] score < 20 -> "Critical - Immediate Intervention Needed"

\* C8: the status label is the band of the final clamped score (>= 80
\* Excellent, 60..79 Good, 40..59 Fair, 20..39 Poor, below 20 Critical); a
\* CALENDAR-only evaluation with density 0.75 and 1 focus hour has delta
\* -15, score 35 and the label Poor
C8_StatusLabel ==
    Returned =>
        /\ result.status = Label(result.score)
        /\ userData = ScenarioB =>
               /\ CalendarImpacts = {-15}
               /\ result.score = 35
               /\ result.status = "Poor - Action Required"

\* C8 witness: the evaluation of scenario B has returned
C8_Witness == Returned /\ userData = ScenarioB

\* the triggers of the six rules, read from the input and the final score;
\* a property the payload does not have satisfies no comparison
EmailTrigger ==
    HasPayload("emails") /\ Field(Payload("emails"), "stressLevel") > 700
CalendarTrigger ==
    HasPayload("calendar") /\ Field(Payload("calendar"), "meetingDensity") > 600
SleepTrigger ==
    /\ HasPayload("fitness")
    /\ "sleepDuration" \in DOMAIN Payload("fitness")
    /\ Payload("fitness").sleepDuration < 60
StepsTrigger ==
    /\ HasPayload("fitness")
    /\ "dailySteps" \in DOMAIN Payload("fitness")
    /\ Payload("fitness").dailySteps < 5000

\* r occurs in recs exactly once if trigger holds and not at all otherwise
FiresIff(recs, r, trigger) ==
    Cardinality(Positions(recs, r)) = (IF trigger THEN 1 ELSE 0)

\* where first occurs in recs, second follows it immediately
Then(recs, first, second) ==
    \A i \in Positions(recs, first) : i + 1 \in Positions(recs, second)

\* C9: each of the six rules emits its recommendations exactly when its own
\* trigger holds, whatever the other rules do: EMAIL magnitude > 0.7 (HIGH
\* then MEDIUM), CALENDAR magnitude > 0.6 (HIGH naming declinableCount),
\* sleep duration < 6 (CRITICAL then MEDIUM), steps < 5000 (MEDIUM), final
\* score < 40 (CRITICAL), final score >= 80 (INFO)
C9_RulesIndependent ==
    Returned =>
        LET recs == result.recommendations
            declinable == IF HasPayload("calendar")
                          THEN Field(Payload("calendar"), "declinableCount") ELSE 0
        IN /\ FiresIff(recs, RecEmailHigh, EmailTrigger)
           /\ FiresIff(recs, RecEmailMedium, EmailTrigger)
           /\ Then(recs, RecEmailHigh, RecEmailMedium)
           /\ FiresIff(recs, RecCalendarHigh(declinable), CalendarTrigger)
           /\ \A i \in DOMAIN recs :
                  recs[i].category = "Calendar Optimization"
                      => recs[i] = RecCalendarHigh(declinable)
           /\ FiresIff(recs, RecSleepCritical, SleepTrigger)
           /\ FiresIff(recs, RecScreenMedium, SleepTrigger)
           /\ Then(recs, RecSleepCritical, RecScreenMedium)
           /\ FiresIff(recs, RecWalkMedium, StepsTrigger)
           /\ FiresIff(recs, RecReviewCritical, result.score < 40)
           /\ FiresIff(recs, RecPositiveInfo, result.score >= 80)

\* C9 witness: the positive rule fired together with another rule
C9_Witness ==
    /\ Returned
    /\ Positions(result.recommendations, RecPositiveInfo) # {}
    /\ Positions(result.recommendations, RecWalkMedium) # {}

\* the fixed rule order, each recommendation named by priority and action
FixedOrder ==
    <<<<"HIGH", RecEmailHigh.action>>,
      <<"MEDIUM", RecEmailMedium.action>>,
      <<"HIGH", RecCalendarHigh(0).action>>,
      <<"CRITICAL", RecSleepCritical.action>>,
      <<"MEDIUM", RecScreenMedium.action>>,
      <<"MEDIUM", RecWalkMedium.action>>,
      <<"CRITICAL", RecReviewCritical.action>>,
      <<"INFO", RecPositiveInfo.action>>>>

\* s is a subsequence of t
RECURSIVE IsSubsequence(_, _)
IsSubsequence(sq, t) ==
    IF sq = <<>> THEN TRUE
    ELSE IF t = <<>> THEN FALSE
    ELSE IF Head(sq) = Head(t) THEN IsSubsequence(Tail(sq), Tail(t))
    ELSE IsSubsequence(sq, Tail(t))

\* C10: the emitted list is a subsequence of the fixed rule order; it is
\* not re-sorted by priority
C10_RuleOrder ==
    Returned =>
        IsSubsequence([i \in DOMAIN result.recommendations |->
                           <<result.recommendations[i].priority,
                             result.recommendations[i].action>>],
                      FixedOrder)

\* C10 witness: a CRITICAL recommendation follows a MEDIUM one
C10_Witness ==
    /\ Returned
    /\ \E i, j \in DOMAIN result.recommendations :
           /\ i < j
           /\ result.recommendations[i].priority = "MEDIUM"
           /\ result.recommendations[j].priority = "CRITICAL"

\* the categories of a list of adjustments, in order
Categories(adj) == [i \in DOMAIN adj |-> adj[i].category]

\* the adjustment categories of the present sources, in the order of the
\* source blocks
PresentCategories ==
    (IF Present("emails") THEN <<"Email Stress">> ELSE <<>>)
    \o (IF Present("calendar") THEN <<"Schedule Health">> ELSE <<>>)
    \o (IF Present("fitness") THEN <<"Sleep & Activity">> ELSE <<>>)

\* the recommendation categories a source can trigger
RuleCategories(k) ==
    CASE k = "emails" -> {"Email Management"}
      [] k = "calendar" -> {"Calendar Optimization"}
      [] k = "fitness" -> {"Health & Wellness"}

\* C11: the adjustment list holds exactly one entry per present source and
\* none for an absent one; an absent source adds nothing to the score and
\* triggers no recommendation, so an evaluation of a single source is valid
C11_OnePerPresentSource ==
    /\ outcome # "none" => Categories(insights.adjustments) = PresentCategories
    /\ Returned =>
           /\ Categories(result.insights.adjustments) = PresentCategories
           /\ LET sum == 50 + SumImpacts(result.insights.adjustments)
              IN result.score = IF sum < 0 THEN 0 ELSE IF sum > 100 THEN 100 ELSE sum
           /\ \A k \in {"emails", "calendar", "fitness"} :
                  ~Present(k) =>
                      \A i \in DOMAIN result.recommendations :
                          result.recommendations[i].category \notin RuleCategories(k)

\* C11 witness: a single-source evaluation returned with one adjustment
\* whose delta alone moved the score off the baseline
C11_Witness ==
    /\ Returned
    /\ Cardinality(DOMAIN userData) = 1
    /\ Len(result.insights.adjustments) = 1
    /\ result.score = 50 + result.insights.adjustments[1].impact
    /\ result.score # 50

\* C12: an ACTIVITY-only evaluation with sleep below 6 hours, quality below
\* 0.5, fewer than 3000 steps and stress above 0.7 (as in scenario C: 5 h,
\* 0.4, 2000 steps, 0.8) has delta -55, score 0 and exactly the four
\* recommendations sleep CRITICAL, screen time MEDIUM, walk MEDIUM,
\* self-review CRITICAL, in this order
C12_ScenarioC ==
    (/\ Returned
     /\ DOMAIN userData = {"fitness"}
     /\ HasPayload("fitness")
     /\ {"sleepDuration", "sleepQuality", "dailySteps", "stressLevel"}
            \subseteq DOMAIN Payload("fitness")
     /\ Payload("fitness").sleepDuration < 60
     /\ Payload("fitness").sleepQuality < 500
     /\ Payload("fitness").dailySteps < 3000
     /\ Payload("fitness").stressLevel > 700)
    => /\ ImpactsOf(result.insights.adjustments, "Sleep & Activity") = {-55}
       /\ result.score = 0
       /\ result.recommendations =
              <<RecSleepCritical, RecScreenMedium, RecWalkMedium, RecReviewCritical>>

\* C12 witness: the evaluation of scenario C has returned
C12_Witness == Returned /\ userData = ScenarioC

\* C13: a call of the engine with the input of an earlier call returns an
\* output identical to the earlier one in every field: the result depends
\* on nothing but the input
C13_IdenticalInEveryField ==
    [][(Returned /\ Returned' /\ userData' = userData) => result' = result]_vars

\* C14: an evaluation changes neither the userData it is given nor the
\* analyzer's own state, and a call that follows other calls on the same
\* instance ends as the first call did
C14_NoMutation ==
    [][/\ userData' = userData
       /\ initialized' = initialized
       /\ (outcome # "none" /\ outcome' # "none") =>
              (outcome' = outcome /\ insights' = insights)]_vars

\* C14 witness: the schedule rule has fired with the default of a missing
\* declinableCount while the calendar payload still lacks the field
C14_Witness ==
    /\ Returned
    /\ HasPayload("calendar")
    /\ ~Has(Payload("calendar"), "declinableCount")
    /\ Positions(result.recommendations, RecCalendarHigh(0)) # {}
    /\ initialized = TRUE

---------------------------------------------------------------------------
(* Properties of the endpoints *)

\* the last reply of the proxy carries the data of source k
Answered(k) ==
    /\ reply # Undefined
    /\ reply.status = 200
    /\ reply.request.source = (IF k = "emails" THEN "gmail" ELSE k)

\* the inbox and the calendar of the user of the last reply
MessagesOfReply == upstream.messages[reply.request.query.userId]
EventsOfReply == upstream.events[reply.request.query.userId]

\* the analyzer was handed a body the proxy had sent for the source k, and
\* scored it
Scored(k) ==
    /\ Returned
    /\ DOMAIN userData = {k}
    /\ HasPayload(k)

\* x is the multiple of step nearest to n/d in units of 1/1000 (or of a
\* tenth of an hour), a tie going either way
Nearest(x, step, n, d) ==
    /\ x % step = 0
    /\ 2 * (x * d - n) <= step * d
    /\ 2 * (n - x * d) <= step * d

\* the minutes of the events that have a non-empty attendees list
AttendedMinutes(events) ==
    LET attended == {i \in DOMAIN events :
                        "attendees" \in DOMAIN events[i] /\ events[i].attendees # <<>>}
        RECURSIVE SumOf(_)
        SumOf(S) == IF S = {} THEN 0
                    ELSE LET i == CHOOSE j \in S : TRUE
                         IN (events[i].end - events[i].start) + SumOf(S \ {i})
    IN SumOf(attended)

\* C15: every magnitude that leaves an endpoint and every magnitude the
\* analyzer bands lies in [0,1] (0..1000 thousandths)
C15_MagnitudeInRange ==
    /\ Answered("emails") => reply.body.data.stressLevel \in 0..1000
    /\ Answered("calendar") => reply.body.data.meetingDensity \in 0..1000
    /\ Answered("fitness") => reply.body.data.sleepQuality \in 0..1000
    /\ outcome # "none" =>
           /\ insights.emailStress \in 0..1000
           /\ insights.scheduleHealth \in 0..1000

\* C16: the EMAIL magnitude is 0.6 * urgentCount / totalEmails
\* + 0.4 * unreadCount / totalEmails of the counts surfaced next to it, to
\* the third decimal, and 0 when totalEmails is 0; urgentCount 5 of 10 with
\* 2 unread gives 0.38 and the net EMAIL delta 0
C16_EmailMagnitude ==
    /\ Answered("emails") =>
           LET d == reply.body.data
           IN /\ d.totalEmails = Len(MessagesOfReply)
              /\ d.totalEmails = 0 => d.stressLevel = 0
              /\ d.totalEmails > 0 =>
                     Nearest(d.stressLevel, 1,
                             100 * (6 * d.urgentCount + 4 * d.unreadCount),
                             d.totalEmails)
              /\ (d.urgentCount = 5 /\ d.totalEmails = 10 /\ d.unreadCount = 2)
                     => d.stressLevel = 380
    /\ (Scored("emails") /\ Payload("emails").urgentCount = 5
        /\ Payload("emails").totalEmails = 10 /\ Payload("emails").unreadCount = 2)
           => /\ result.insights.emailStress = 380
              /\ ImpactsOf(result.insights.adjustments, "Email Stress") = {0}

\* C16 witness: the inbox of scenario A was answered with 0.38 and scored
C16_Witness ==
    /\ Scored("emails")
    /\ Payload("emails").urgentCount = 5
    /\ Payload("emails").totalEmails = 10
    /\ Payload("emails").unreadCount = 2
    /\ Payload("emails").stressLevel = 380
    /\ Len(upstream.messages["u1"]) = 10

\* C17: the CALENDAR magnitude is min(1, meetingMinutes / 480) and
\* focusTimeHours is max(0, (480 - meetingMinutes) / 60), each to the
\* surfaced precision, where meetingMinutes adds up the events that have
\* attendees; the analyzer takes the magnitude alone as the density
C17_CalendarMagnitude ==
    /\ Answered("calendar") =>
           LET d == reply.body.data
               mm == AttendedMinutes(EventsOfReply)
           IN /\ reply.body.metadata.meetingMinutes = mm
              /\ Nearest(d.meetingDensity, 10,
                         1000 * (IF mm > 480 THEN 480 ELSE mm), 480)
              /\ Nearest(d.focusTimeHours, 1,
                         10 * (IF mm > 480 THEN 0 ELSE 480 - mm), 60)
    /\ Scored("calendar") =>
           result.insights.scheduleHealth = Payload("calendar").meetingDensity

\* C17 witness: a day with an event without attendees and one meeting was
\* scored with a density and a focus time strictly between their limits
C17_Witness ==
    /\ Scored("calendar")
    /\ \E i \in DOMAIN upstream.events["u1"] :
           "attendees" \notin DOMAIN upstream.events["u1"][i]
    /\ Payload("calendar").meetingCount = 1
    /\ Payload("calendar").meetingDensity \in 1..999
    /\ Payload("calendar").focusTimeHours \in 1..79

\* the ratios and hours of the body that was sent are the multiples of
\* the steps (in thousandths: email, density, quality, stress; in tenths of
\* an hour) nearest to the values computed from the upstream data
RoundedTo(email, density, quality, stress, hours) ==
    /\ Answered("emails") =>
           LET d == reply.body.data
           IN IF d.totalEmails = 0 THEN d.stressLevel = 0
              ELSE Nearest(d.stressLevel, email,
                           100 * (6 * d.urgentCount + 4 * d.unreadCount),
                           d.totalEmails)
    /\ Answered("calendar") =>
           LET d == reply.body.data
               mm == reply.body.metadata.meetingMinutes
           IN /\ Nearest(d.meetingDensity, density,
                         1000 * (IF mm > 480 THEN 480 ELSE mm), 480)
              /\ Nearest(d.focusTimeHours, hours,
                         10 * (IF mm > 480 THEN 0 ELSE 480 - mm), 60)
    /\ Answered("fitness") =>
           LET d == reply.body.data
               r == upstream.random
           IN /\ Nearest(d.sleepQuality, quality, 50000 + 3 * r.quality, 100)
              /\ Nearest(d.stressLevel, stress, 40000 + 4 * r.stress, 100)
              /\ Nearest(d.sleepDuration, hours, 50000 + 3 * r.sleep, 1000)

\* the analyzer bands the values of the bodies as they were sent
BandsTheSurfaced ==
    /\ Scored("emails") =>
           ImpactsOf(result.insights.adjustments, "Email Stress")
               = {EmailDelta(Payload("emails").stressLevel,
                             Payload("emails").urgentCount)}
    /\ Scored("calendar") =>
           ImpactsOf(result.insights.adjustments, "Schedule Health")
               = {CalendarDelta(Payload("calendar").meetingDensity,
                                Payload("calendar").focusTimeHours)}
    /\ Scored("fitness") =>
           ImpactsOf(result.insights.adjustments, "Sleep & Activity")
               = {ActivityDelta(Payload("fitness"))}

\* C18 as stated: every surfaced ratio is rounded to three decimals and
\* every hour value to one, and the banding is applied to the rounded value
C18_ThreeDecimals == RoundedTo(1, 1, 1, 1, 1) /\ BandsTheSurfaced

\* C18 amended: the EMAIL stressLevel is rounded to three decimals, the
\* CALENDAR meetingDensity and the ACTIVITY sleepQuality and stressLevel to
\* two, focusTimeHours and sleepDuration to one, and the banding is applied
\* to the rounded value
C18_SurfacedPrecision == RoundedTo(1, 10, 10, 10, 1) /\ BandsTheSurfaced

\* C18 witness: a drawn stress of 0.704, above the 0.7 threshold, was
\* surfaced as 0.70 and scored without the stress penalty
C18_Witness ==
    /\ Scored("fitness")
    /\ 40000 + 4 * upstream.random.stress > 70000
    /\ Payload("fitness").stressLevel = 700
    /\ ImpactsOf(result.insights.adjustments, "Sleep & Activity")
           = {SleepDelta(Payload("fitness").sleepDuration)
              + QualityDelta(Payload("fitness").sleepQuality)
              + StepsDelta(Payload("fitness").dailySteps)}

---------------------------------------------------------------------------
(* Properties of the proxy server *)

\* the entry of a key was written less than CACHE_TTL ago
Fresh(key) == key \in DOMAIN cache /\ now - cache[key].timestamp < CACHE_TTL

\* the entry of a key holds a body built for the user and the source of a
\* request
WrittenFor(key, req) ==
    /\ cache[key].data.user.userId = req.query.userId
    /\ cache[key].data.type =
           (CASE req.source = "gmail" -> "email_stress"
              [] req.source = "calendar" -> "schedule_health"
              [] req.source = "fitness" -> "fitness_summary")

\* the fresh entries written for the user and the source of a request
FreshFor(req) == {key \in DOMAIN cache : Fresh(key) /\ WrittenFor(key, req)}

\* an entry was written for the user and the source of a request
EntryFor(req) == \E key \in DOMAIN cache : WrittenFor(key, req)

\* the step makes no upstream call and answers req with the cached body
ServedFromCache(req, body) ==
    /\ pending' = pending
    /\ cache' = cache
    /\ reply' = [request |-> req, status |-> 200, body |-> body, at |-> now]

\* the step sends req upstream
SentUpstream(req) == AwaitingIn(pending', req) = AwaitingIn(pending, req) + 1

\* a pending request is answered with a fresh body that replaces the entry
\* of its key
Replaces ==
    \A req \in DataRequests :
        (/\ AwaitingIn(pending', req) < AwaitingIn(pending, req)
         /\ reply' # Undefined
         /\ reply'.status = 200)
        => /\ reply'.request = req
           /\ reply'.body.metadata.timestamp = now
           /\ cacheKey(req) \in DOMAIN cache'
           /\ cache'[cacheKey(req)] = [data |-> reply'.body, timestamp |-> now]

\* C19 as stated: a data request for a (user, source) that begins while a
\* response for that user and source was cached less than TTL ago makes no
\* upstream call and returns the cached response; once the age of the entry
\* has reached TTL the request goes upstream and its answer replaces the
\* entry
C19_CachedPerUserAndSource ==
    [][/\ \A req \in DataRequests :
            ("userId" \in DOMAIN req.query /\ EntryFor(req) /\ Begin(req)) =>
                IF FreshFor(req) # {}
                THEN \E key \in FreshFor(req) : ServedFromCache(req, cache[key].data)
                ELSE SentUpstream(req)
       /\ Replaces]_vars

\* C19 amended: a data request that carries a userId whose tokens are
\* stored, and that begins while the entry of its own cache key is younger
\* than TTL, makes no upstream call and returns the cached response; once
\* the age of the entry has reached TTL (or there is none) the request goes
\* upstream, and a successful answer replaces the entry
C19_CachedPerKey ==
    [][/\ \A req \in DataRequests :
            ("userId" \in DOMAIN req.query
             /\ req.query.userId \in DOMAIN userTokens
             /\ Begin(req)) =>
                IF Fresh(cacheKey(req))
                THEN ServedFromCache(req, cache[cacheKey(req)].data)
                ELSE SentUpstream(req)
       /\ Replaces]_vars

\* C19 witness: a reply carried a body that was built before the reply was
\* sent, and the entry of its key still holds this body
C19_Witness ==
    /\ reply # Undefined
    /\ reply.status = 200
    /\ Has(reply.body, "metadata")
    /\ reply.body.metadata.timestamp < reply.at
    /\ cacheKey(reply.request) \in DOMAIN cache
    /\ cache[cacheKey(reply.request)].data = reply.body

---------------------------------------------------------------------------
(* Properties of the page *)

\* the fetch of source k was answered with data
AnsweredWithData(k) ==
    /\ fetches[k].state = "fulfilled"
    /\ "data" \in DOMAIN fetches[k].body

\* a load has ended and all of its fetches have settled
LoadEnded ==
    /\ ~loading
    /\ \A k \in {"emails", "calendar", "fitness"} :
           fetches[k].state \in {"fulfilled", "rejected"}

\* the adjustment category of a source
CategoryOf(k) ==
    CASE k = "emails" -> "Email Stress"
      [] k = "calendar" -> "Schedule Health"
      [] k = "fitness" -> "Sleep & Activity"

\* C20: when a load has ended, every source that was answered with data is
\* displayed on its card and scored by the analyzer, whatever happened to
\* the other sources
C20_FailingSourceOmitted ==
    LoadEnded =>
        \A k \in {"emails", "calendar", "fitness"} :
            AnsweredWithData(k) =>
                /\ k \in cards
                /\ Returned
                /\ ImpactsOf(result.insights.adjustments, CategoryOf(k)) # {}

---------------------------------------------------------------------------
(* Properties of the serverless functions *)

\* tokens are stored for the user u
Stored(u) == redis # Null /\ Has(redis, u)

\* C21: a serverless function that is invoked while no tokens are stored
\* for the userId of its request does not treat the user as authenticated:
\* the status endpoint answers authenticated false, the Gmail and Calendar
\* endpoints answer 401, call nothing and leave the OAuth client alone
C21_NoTokensNotAuthenticated ==
    [][\A u \in Users :
          ~Stored(u) =>
              /\ ApiAuthStatus("GET", [userId |-> u])
                     => ~res'.body.authenticated
              /\ \A kind \in {"emails", "calendar"} :
                     ApiData(kind, "GET", [userId |-> u])
                         => /\ res' = ApiReply([endpoint |-> kind,
                                                query |-> [userId |-> u]],
                                               401, [error |-> "Not authenticated"])
                            /\ invocations' = invocations
                            /\ credentials' = credentials]_vars

\* C22: the callback redirects to auth=success and sets the userId cookie
\* only if the tokens of that user are in the store when it has answered;
\* otherwise it redirects to auth=error, sets no cookie and stores nothing
C22_SuccessOnlyIfStored ==
    [][(/\ Has(res', "location")
        /\ res'.endpoint = "callback"
        /\ (res' # res \/ invocations' # invocations)) =>
          IF res'.location = "/?auth=success" \/ res'.setCookie # EmptyObj
          THEN /\ res'.location = "/?auth=success"
               /\ res'.setCookie # EmptyObj
               /\ redis' # Null
               /\ Has(redis', res'.setCookie.userId)
               /\ redis'[res'.setCookie.userId] = TokensOf(res'.setCookie.userId)
          ELSE redis' = redis]_vars

---------------------------------------------------------------------------
(* Properties of the proxy server: sessions, credentials, errors *)

\* the Gmail and Calendar requests that name the user u
GoogleRequestsOf(u) ==
    {req \in DataRequests :
        /\ req.source \in {"gmail", "calendar"}
        /\ Has(req.query, "userId")
        /\ req.query.userId = u}

\* the step ends a callback for the account u with the redirect to
\* auth=success
CallbackSucceeds(u) ==
    \E h \in BagToSet(pending) :
        /\ h.request.source = "callback"
        /\ h.request.code = u
        /\ UserIdentified(h)

\* C23: a logout from the session of U removes the session and the tokens
\* of U; only a successful callback for U brings them back; and while U
\* has no tokens, the status endpoint answers U's browser authenticated
\* false and a Gmail or Calendar request for U that arrives is answered 401
\* with no upstream call and no change of the cache, even when the entry
\* of its key is fresh
C23_LoggedOutUntilCallback ==
    [][\A u \in Users :
          /\ AuthLogout(u) => (u \notin sessions' /\ ~Has(userTokens', u))
          /\ (~Has(userTokens, u) /\ Has(userTokens', u)) => CallbackSucceeds(u)
          /\ (u \notin sessions /\ u \in sessions') => CallbackSucceeds(u)
          /\ ~Has(userTokens, u) =>
                /\ AuthStatus(u) => ~reply'.body.authenticated
                /\ \A req \in GoogleRequestsOf(u) :
                       Begin(req) => /\ reply' = Reply(req, 401, [error |-> "Not authenticated"])
                                     /\ pending' = pending
                                     /\ cache' = cache]_vars

\* C23 witness: a request was answered 401 while the entry of its key,
\* written before, was still younger than CACHE_TTL
C23_Witness ==
    /\ reply # Undefined
    /\ reply.status = 401
    /\ reply.request.source \in {"gmail", "calendar"}
    /\ cacheKey(reply.request) \in DOMAIN cache
    /\ cache[cacheKey(reply.request)].timestamp < reply.at
    /\ reply.at - cache[cacheKey(reply.request)].timestamp < CACHE_TTL

\* the credentials of the owner of a request, and nothing else
OwnCredentials(req) == {TokensOf(req.query.userId)}

\* the data of the Gmail body that is derived from the inbox of the user u
OwnStress(u) ==
    LET inbox == upstream.messages[u]
        analyzed == {i \in 1..analyzedEmails(Len(inbox)) : inbox[i].readable}
        urgentCount == Cardinality({i \in analyzed : inbox[i].keyword})
        unreadCount == Cardinality({i \in analyzed : inbox[i].unread})
    IN stressLevelData(baseStress(Len(inbox), urgentCount, unreadCount),
                       Len(inbox), urgentCount, unreadCount)

\* the Gmail and Calendar bodies for the user u are derived from the data
\* of u
OwnData(u, body) ==
    /\ body.type = "email_stress" => body.data = OwnStress(u)
    /\ body.type = "schedule_health" =>
           body.metadata.meetingMinutes = MeetingMinutes(upstream.events[u])

\* C24: every upstream Google call of a handler is made with the
\* credentials of the user of its request, so every body that is sent or
\* cached for a user is derived from the data of this user
C24_OwnCredentials ==
    /\ \A h \in BagToSet(pending) :
           h.request.source \in {"gmail", "calendar"}
               => h.used \subseteq OwnCredentials(h.request)
    /\ \A key \in DOMAIN cache :
           OwnData(cache[key].data.user.userId, cache[key].data)
    /\ (/\ reply # Undefined
        /\ reply.status = 200
        /\ reply.request.source \in {"gmail", "calendar"})
           => OwnData(reply.request.query.userId, reply.body)

\* C25: a Gmail or Calendar body of a user is sent only to the browser of
\* this user
C25_OnlyToOwnSession ==
    (/\ reply # Undefined
     /\ reply.status = 200
     /\ reply.request.source \in {"gmail", "calendar"})
        => reply.request.from = reply.body.user.userId

\* C26: a step in which a data request is answered 400, 401 or 500 leaves
\* the cache as it was, and no entry ever holds an error body
C26_ErrorsLeaveCache ==
    [][/\ (/\ reply' # Undefined
           /\ reply'.status \in {400, 401, 500}
           /\ (reply' # reply \/ pending' # pending))
              => cache' = cache
       /\ \A key \in DOMAIN cache' : ~Has(cache'[key].data, "error")]_vars

\* C26 witness: a request was answered 500 and the entry of its key, written
\* before, is still there
C26_Witness ==
    /\ reply # Undefined
    /\ reply.status = 500
    /\ reply.request.source \in {"gmail", "calendar", "fitness"}
    /\ cacheKey(reply.request) \in DOMAIN cache
    /\ cache[cacheKey(reply.request)].timestamp < reply.at
    /\ Has(cache[cacheKey(reply.request)].data, "type")

---------------------------------------------------------------------------
(* Properties of the page: the load button and the dashboard *)

\* every fetch of the load in progress has settled, or one was rejected
SettledEnough ==
    \/ \E k \in {"emails", "calendar", "fitness"} : fetches[k].state = "rejected"
    \/ \A k \in {"emails", "calendar", "fitness"} : fetches[k].state = "fulfilled"

\* C27: the load button is disabled as long as a loadAllData call is in
\* progress; the step that ends a call leaves the button enabled and
\* labelled 'Reload Data', and so does a call that ends at once because
\* nobody is signed in; and a call in progress whose fetches have settled
\* comes to its end
C27_ButtonRestored ==
    /\ [](loading => loadBtn.disabled)
    /\ [][(loading /\ ~loading') => loadBtn' = ReloadEnabled]_vars
    /\ [][loadBtn' # loadBtn =>
              IF loading' THEN loadBtn'.disabled ELSE loadBtn' = ReloadEnabled]_vars
    /\ (loading /\ SettledEnough) ~> (~loading /\ loadBtn = ReloadEnabled)

\* C27 witness: a load whose three fetches were fulfilled has ended with
\* the error message, because parsing or rendering threw, and the button is
\* enabled and labelled 'Reload Data'
C27_Witness ==
    /\ ~loading
    /\ \A k \in {"emails", "calendar", "fitness"} : fetches[k].state = "fulfilled"
    /\ errorShown
    /\ loadBtn = [textContent |-> "Reload Data", disabled |-> FALSE]

\* C28: the dashboard is displayed only while currentUser is the user the
\* status endpoint reported as authenticated; after a status check that
\* failed or reported authenticated false the login prompt is displayed
\* and no fetch of a data load was made; and while nobody is signed in
\* after the check the login prompt is displayed
C28_DashboardOnlyIfAuthenticated ==
    /\ shown = "dashboard-content" =>
           /\ authCheck.state = "answered"
           /\ authCheck.data.authenticated
           /\ currentUser = [userId |-> authCheck.data.userId]
    /\ (\/ authCheck.state = "failed"
        \/ (authCheck.state = "answered" /\ ~authCheck.data.authenticated)) =>
           /\ shown = "login-prompt"
           /\ \A k \in {"emails", "calendar", "fitness"} : fetches[k].state = "none"
    /\ (authCheck.state # "pending" /\ currentUser = Null) => shown = "login-prompt"

\* C29: the INFO positive-reinforcement recommendation (reason 'All
\* productivity and health metrics look excellent') is emitted only in
\* evaluations that emit no other recommendation: it never appears together
\* with a CRITICAL, HIGH or MEDIUM recommendation
C29_PositiveAlone ==
    Returned =>
        LET recs == result.recommendations
        IN Positions(recs, RecPositiveInfo) # {} =>
               \A i \in DOMAIN recs : recs[i] = RecPositiveInfo
====
